---- MODULE Spec2Model ----
(***************************************************************************)
(* Model of the SCD engine (analytics/etl/load_dimensions.py) and of the   *)
(* fact loading orchestrator (analytics/etl/load_facts.py).                *)
(*                                                                         *)
(* The relational store is modelled by its tables: a table is a set of     *)
(* rows, a row a record.  A cell holds NULL or a typed scalar; str() and   *)
(* pd.notna() are modelled on those typed scalars.                         *)
(***************************************************************************)
EXTENDS Integers, Sequences, FiniteSets, Bags, TLC

(***************************************************************************)
(* Bounds of the model.                                                    *)
(***************************************************************************)
MaxStaged == 2      \* longest df_new handed to an SCD policy
MaxCalls == 2       \* SCD policy applications in one behaviour
MaxRuns == 2        \* load_facts runs in one behaviour
MaxEcarts == 2      \* staging tables that differ from the reference export
MaxPipelines == 2   \* run_etl runs in one behaviour

(***************************************************************************)
(* Scalars.  A pandas / SQL cell is NULL, a string or an integer; the      *)
(* integer is carried by its decimal digits so that str() is computable.   *)
(***************************************************************************)
NULL == [typ |-> "null", repr |-> "None"]
StrV(s) == [typ |-> "str", repr |-> s]
IntV(s) == [typ |-> "int", repr |-> s]

\* pd.notna(v)
notna(v) == v.typ # "null"

\* Python str(v): an int prints its digits, a str is itself
str(v) == v.repr

\* what a varchar column holds after :new_val / to_sql wrote v into it
Stored(v) == IF notna(v) THEN StrV(str(v)) ELSE NULL

(***************************************************************************)
(* Change detection shared by the three policies:                          *)
(*   pd.notna(new_val) and pd.notna(old_val) and str(new_val) != str(old)  *)
(***************************************************************************)
ValueChangedNullIsChange(new_val, old_val) ==
    IF notna(new_val) /\ notna(old_val)
    THEN str(new_val) # str(old_val)
    ELSE new_val.typ # old_val.typ

ValueChangedRaw(new_val, old_val) ==
    notna(new_val) /\ notna(old_val) /\ new_val # old_val

ValueChanged(new_val, old_val) ==
    notna(new_val) /\ notna(old_val) /\ str(new_val) # str(old_val)

(***************************************************************************)
(* Rows of a table in the order the store returns them (by identity).      *)
(***************************************************************************)
MinBy(S, idcol) == CHOOSE r \in S : \A q \in S : r[idcol] <= q[idcol]

RECURSIVE RowsById(_, _)
RowsById(S, idcol) ==
    IF S = {} THEN <<>>
    ELSE LET m == MinBy(S, idcol) IN <<m>> \o RowsById(S \ {m}, idcol)

MaxId(S, idcol) ==
    IF S = {} THEN 0 ELSE (CHOOSE r \in S : \A q \in S : r[idcol] >= q[idcol])[idcol]

\* df_new.merge(df_current, on=business_key): inner join, left order kept,
\* the matches of one left row in the order of df_current
RECURSIVE MergeOne(_, _, _, _)
MergeOne(n, cur, business_key, i) ==
    IF i > Len(cur) THEN <<>>
    ELSE (IF cur[i][business_key] = n[business_key]
          THEN <<[new |-> n, old |-> cur[i]]>> ELSE <<>>)
         \o MergeOne(n, cur, business_key, i + 1)

RECURSIVE Merge(_, _, _, _)
Merge(df_new, cur, business_key, i) ==
    IF i > Len(df_new) THEN <<>>
    ELSE MergeOne(df_new[i], cur, business_key, 1)
         \o Merge(df_new, cur, business_key, i + 1)

(***************************************************************************)
(* The dimension tables as the dimension loaders leave them.               *)
(***************************************************************************)
\* A date column holds 0 for NULL and otherwise the clock value of GETDATE().
\* dwh.dim_geographie (SCD Type 2), business key departement_code
GeoKeys == {"02", "59"}

DimGeoInit ==
    { [geo_id |-> 1, departement_code |-> "02", departement_nom |-> StrV("Aisne"),
       region_code |-> StrV("32"), geo_code_source |-> "2024-DEP-02",
       date_debut_validite |-> 0, date_fin_validite |-> 0, est_actif |-> 1,
       version |-> 1, date_modification |-> 0],
      [geo_id |-> 2, departement_code |-> "59", departement_nom |-> StrV("Nord"),
       region_code |-> NULL, geo_code_source |-> "2024-DEP-59",
       date_debut_validite |-> 0, date_fin_validite |-> 0, est_actif |-> 1,
       version |-> 1, date_modification |-> 0] }

\* dwh.dim_activite (SCD Type 1), business key naf_section_code: the rows of
\* the legal forms all carry naf_section_code '_T' and no section label
ActKeys == {"A", "_T"}

DimActInit ==
    { [activite_id |-> 1, naf_section_code |-> "A",
       naf_section_libelle |-> StrV("Agriculture"), date_modification |-> 0],
      [activite_id |-> 2, naf_section_code |-> "_T",
       naf_section_libelle |-> StrV("7"), date_modification |-> 0],
      [activite_id |-> 3, naf_section_code |-> "_T",
       naf_section_libelle |-> NULL, date_modification |-> 0] }

\* a dimension kept with the Type-2 columns whose surrogate key column is
\* not geo_id (apply_scd_type2 takes the table, its business key and its
\* tracked columns as parameters): dim_activite with a validity window
VersionneeKeys == {"A", "B"}

DimVersionneeInit ==
    { [activite_id |-> 1, naf_section_code |-> "A",
       naf_section_libelle |-> StrV("Agriculture"),
       date_debut_validite |-> 0, date_fin_validite |-> 0, est_actif |-> 1,
       version |-> 1, date_modification |-> 0],
      [activite_id |-> 2, naf_section_code |-> "B",
       naf_section_libelle |-> StrV("Industrie"),
       date_debut_validite |-> 0, date_fin_validite |-> 0, est_actif |-> 1,
       version |-> 1, date_modification |-> 0] }

\* dwh.dim_demographie (SCD Type 3), business key pcs_code
PcsKeys == {"1", "2"}

DimDemoInit ==
    { [demo_id |-> 1, pcs_code |-> "1", pcs_libelle |-> StrV("Agriculteurs"),
       ancien_pcs_libelle |-> NULL, date_changement_pcs |-> 0,
       date_modification |-> 0],
      [demo_id |-> 2, pcs_code |-> "2", pcs_libelle |-> NULL,
       ancien_pcs_libelle |-> NULL, date_changement_pcs |-> 0,
       date_modification |-> 0],
      [demo_id |-> 3, pcs_code |-> "2", pcs_libelle |-> StrV("Artisans"),
       ancien_pcs_libelle |-> NULL, date_changement_pcs |-> 0,
       date_modification |-> 0] }

(***************************************************************************)
(* Tables of the store read and written by the fact loaders.               *)
(***************************************************************************)
\* dwh.dim_temps: three of the fourteen reference years, with the identities
\* their insertion order gives them (2011 is not a reference year)
DimTempsInit ==
    { [temps_id |-> 1, annee |-> "2010"], [temps_id |-> 2, annee |-> "2012"],
      [temps_id |-> 11, annee |-> "2021"] }

StagingTables ==
    {"stg_population", "stg_naissances", "stg_deces", "stg_creation_entreprises",
     "stg_ds_filosofi", "stg_emploi_chomage", "stg_menage", "stg_menages"}

\* the dependency list of main()
TABLES ==
    << [nom |-> "dwh.fait_population", fn |-> "load_fait_population",
        stg_requises |-> <<"stg_population">>],
       [nom |-> "dwh.fait_evenements_demo", fn |-> "load_fait_evenements_demo",
        stg_requises |-> <<"stg_naissances", "stg_deces">>],
       [nom |-> "dwh.fait_entreprises", fn |-> "load_fait_entreprises",
        stg_requises |-> <<"stg_creation_entreprises">>],
       [nom |-> "dwh.fait_revenus", fn |-> "load_fait_revenus",
        stg_requises |-> <<"stg_ds_filosofi">>],
       [nom |-> "dwh.fait_emploi", fn |-> "load_fait_emploi",
        stg_requises |-> <<"stg_emploi_chomage">>],
       [nom |-> "dwh.fait_menages", fn |-> "load_fait_menages",
        stg_requises |-> <<"stg_menage">>] >>

FactNames == {TABLES[i].nom : i \in 1..Len(TABLES)}

\* a staging table that does not exist, and one that holds the rows df
Absent == [exists |-> FALSE, rows |-> <<>>]
Staged(df) == [exists |-> TRUE, rows |-> df]

(***************************************************************************)
(* State.                                                                  *)
(***************************************************************************)
VARIABLES
    dim_geographie,   \* rows of dwh.dim_geographie
    dim_activite,     \* rows of dwh.dim_activite
    dim_demographie,  \* rows of dwh.dim_demographie
    dim_versionnee,   \* rows of a versioned dimension other than dim_geographie
    log_etl,          \* rows of dwh.log_etl written by log_etl_db
    clock,            \* GETDATE(): the number of policy applications so far
    nb_applied,       \* per business key of dim_geographie: changes applied
    last,             \* the last policy application: its input and result
    dim_temps,        \* rows of dwh.dim_temps
    staging,          \* dbo.stg_*: per staging table, whether it exists and its rows
    faits,            \* dwh.fait_*: per fact table, the bag of its rows
    pc,               \* load_facts.main: "idle", "loop" or "done"
    idx,              \* position of the for loop in TABLES
    staging_failed,   \* args.staging_failed of the run
    rapport,          \* rapport: per fact table, its entry
    total,
    has_error,
    statut_final,
    exit_code,        \* what main() returned (-1 while it has not returned)
    store_calls,      \* the calls to the store attempted by the run
    invoked,          \* the fact tables whose loader the run has called
    runs,             \* number of load_facts runs started
    prev,             \* rapport and faits as the previous run left them
    dim_indicateur,   \* rows of dwh.dim_indicateur
    dim_logement,     \* rows of dwh.dim_logement
    args_report,      \* load_facts: whether --report was given to the process
    report_files,     \* _rapport_dimensions.json and _rapport_facts.json on disk
    etl_pc,           \* run_etl.main: the step it is at
    etl_args,         \* run_etl: the steps selected on the command line
    rapport_etapes,   \* run_etl: per step, its entry
    rapport_details,  \* run_etl: per table, the entry read from the reports
    success,
    staging_ok,
    mails,            \* the e-mails the current run_etl run has sent
    etl_exit,         \* what run_etl.main returned (-1 while it has not returned)
    etl_runs,         \* number of run_etl runs started
    echecs            \* the steps of the run whose own work failed

scd_vars == <<dim_geographie, dim_activite, dim_demographie, dim_versionnee,
              log_etl, clock, nb_applied, last>>

\* the state of run_etl.main other than the report files
pipeline_vars == <<etl_pc, etl_args, rapport_etapes, rapport_details, success,
                   staging_ok, mails, etl_exit, etl_runs, echecs>>

fact_vars == <<dim_temps, staging, faits, pc, idx, staging_failed, rapport, total,
               has_error, statut_final, exit_code, store_calls, invoked, runs, prev,
               dim_indicateur, dim_logement, args_report, report_files, pipeline_vars>>

vars == <<scd_vars, fact_vars>>

\* rapport = {}: no entry for any table yet
NoEntry == [statut |-> "ABSENT", nb_lignes |-> 0, erreur |-> ""]
EmptyRapport == [nom \in FactNames |-> NoEntry]
EmptyFacts == [nom \in FactNames |-> EmptyBag]

\* no load_facts run has been started
MainAtRest ==
    /\ pc = "idle"
    /\ idx = 0
    /\ staging_failed = FALSE
    /\ rapport = EmptyRapport
    /\ total = 0
    /\ has_error = FALSE
    /\ statut_final = ""
    /\ exit_code = -1
    /\ store_calls = {}
    /\ invoked = {}
    /\ runs = 0
    /\ prev = [rapport |-> EmptyRapport, faits |-> EmptyFacts]

\* dwh.dim_indicateur and dwh.dim_logement: two of the reference rows of each
DimIndicateurInit ==
    { [indicateur_id |-> 1, indicateur_code |-> "MED_SL"],
      [indicateur_id |-> 2, indicateur_code |-> "D1_SL"] }

DimLogementInit ==
    { [logement_id |-> 1, occupation_code |-> "DW_MAIN", surpeuplement_code |-> "0"],
      [logement_id |-> 4, type_menage_code |-> "110", taille_menage_code |-> "1"] }

\* a report file: absent, or the JSON written by a sub-script (with the
\* run_etl run during which it was written)
NoFile == [existe |-> FALSE, contenu |-> EmptyRapport, ecrit |-> 0]
Written(contenu, run) == [existe |-> TRUE, contenu |-> contenu, ecrit |-> run]

\* the steps of run_etl.main, in order
Etapes == <<"staging", "securite", "dimensions", "faits", "refresh", "backup">>
EtapeNames == {Etapes[i] : i \in 1..Len(Etapes)}
NoEtape == [statut |-> "ABSENT", nb_lignes |-> 0]

\* no run_etl run has been started, no report file is on disk
PipelineAtRest ==
    /\ dim_indicateur = DimIndicateurInit
    /\ dim_logement = DimLogementInit
    /\ args_report = FALSE
    /\ report_files = [dims |-> NoFile, facts |-> NoFile]
    /\ etl_pc = "idle"
    /\ etl_args = {}
    /\ rapport_etapes = [e \in EtapeNames |-> NoEtape]
    /\ rapport_details = EmptyRapport
    /\ success = TRUE
    /\ staging_ok = TRUE
    /\ mails = {}
    /\ etl_exit = -1
    /\ etl_runs = 0
    /\ echecs = {}

(***************************************************************************)
(* log_etl_db: one row into dwh.log_etl (a failure to write is swallowed). *)
(***************************************************************************)
log_etl_db(log, etape, table_cible, statut, nb_lignes) ==
    log \cup {[etape |-> etape, table_cible |-> table_cible,
               statut |-> statut, nb_lignes |-> nb_lignes]}

(***************************************************************************)
(* apply_scd_type1: overwrite in place.                                    *)
(***************************************************************************)
\* UPDATE table SET col = :new_val, date_modification = GETDATE() WHERE bk = :bk
UpdateType1(tbl, business_key, update_column, bk, new_val, now) ==
    { IF r[business_key] = bk
      THEN [r EXCEPT ![update_column] = StrV(str(new_val)),
                     !.date_modification = now]
      ELSE r : r \in tbl }

RECURSIVE Scd1Loop(_, _, _, _, _, _)
Scd1Loop(merged, i, st, business_key, update_column, now) ==
    IF i > Len(merged) THEN st
    ELSE LET row == merged[i]
             new_val == row.new[update_column]
             old_val == row.old[update_column]
         IN IF ValueChanged(new_val, old_val)
            THEN Scd1Loop(merged, i + 1,
                          [tbl |-> UpdateType1(st.tbl, business_key, update_column,
                                               row.new[business_key], new_val, now),
                           nb_changes |-> st.nb_changes + 1],
                          business_key, update_column, now)
            ELSE Scd1Loop(merged, i + 1, st, business_key, update_column, now)

Scd1Result(tbl, idcol, business_key, update_column, df_new, now) ==
    LET df_current == RowsById(tbl, idcol)
    IN IF df_current = <<>>
       THEN [tbl |-> tbl, nb_changes |-> 0]
       ELSE Scd1Loop(Merge(df_new, df_current, business_key, 1), 1,
                     [tbl |-> tbl, nb_changes |-> 0],
                     business_key, update_column, now)

(***************************************************************************)
(* apply_scd_type2: close the active row, insert the next version.         *)
(***************************************************************************)
TrackedColumns == <<"departement_nom", "region_code">>

\* the loop over tracked_columns that sets `changed`
RowChanged(row, tracked_columns) ==
    \E c \in 1..Len(tracked_columns) :
        ValueChanged(row.new[tracked_columns[c]], row.old[tracked_columns[c]])

\* UPDATE table SET date_fin_validite = GETDATE(), est_actif = 0,
\*        date_modification = GETDATE() WHERE bk = :bk AND est_actif = 1
CloseActiveToutes(tbl, business_key, bk, now) ==
    { IF r[business_key] = bk
      THEN [r EXCEPT !.date_fin_validite = now, !.est_actif = 0,
                     !.date_modification = now]
      ELSE r : r \in tbl }

CloseActive(tbl, business_key, bk, now) ==
    { IF r[business_key] = bk /\ r.est_actif = 1
      THEN [r EXCEPT !.date_fin_validite = now, !.est_actif = 0,
                     !.date_modification = now]
      ELSE r : r \in tbl }

\* SELECT * WHERE bk = :bk AND est_actif = 0 ORDER BY version DESC, .iloc[0];
\* rows of equal version come in an order the store chooses (tieLow)
OldRecord(tbl, business_key, bk, tieLow) ==
    LET closed == {r \in tbl : r[business_key] = bk /\ r.est_actif = 0}
        top == {r \in closed : \A q \in closed : q.version <= r.version}
    IN IF tieLow
       THEN CHOOSE r \in top : \A q \in top : r.geo_id <= q.geo_id
       ELSE CHOOSE r \in top : \A q \in top : r.geo_id >= q.geo_id

\* the version written into new_record: int(old_version) + 1, old_version
\* being the version of the row read into df_current before the loop
NewVersionKept(row, old_record) == row.old.version

NewVersionDecrement(row, old_record) == row.old.version - 1

NewVersion(row, old_record) == row.old.version + 1

\* new_record: a copy of old_record, the tracked columns overwritten by the
\* non-null staged values, a new validity window, the identity left to the store
NewRecord(old_record, row, tracked_columns, now, new_id) ==
    LET tracked == {tracked_columns[c] : c \in 1..Len(tracked_columns)}
        copy == [col \in DOMAIN old_record |->
                    IF col \in tracked /\ notna(row.new[col])
                    THEN Stored(row.new[col])
                    ELSE old_record[col]]
    IN [copy EXCEPT !.date_debut_validite = now,
                    !.date_fin_validite = 0,
                    !.est_actif = 1,
                    !.version = NewVersion(row, old_record),
                    !.date_modification = now,
                    !.geo_id = new_id]

RECURSIVE Scd2Loop(_, _, _, _, _, _, _)
Scd2Loop(merged, i, st, business_key, tracked_columns, tieLow, now) ==
    IF i > Len(merged) THEN st
    ELSE LET row == merged[i]
             bk_value == row.new[business_key]
             closed == CloseActive(st.tbl, business_key, bk_value, now)
             old_record == OldRecord(closed, business_key, bk_value, tieLow)
             new_record == NewRecord(old_record, row, tracked_columns, now,
                                     MaxId(closed, "geo_id") + 1)
         IN IF RowChanged(row, tracked_columns)
            THEN Scd2Loop(merged, i + 1,
                          [tbl |-> closed \cup {new_record},
                           nb_changes |-> st.nb_changes + 1,
                           applied |-> [st.applied EXCEPT ![bk_value] = @ + 1]],
                          business_key, tracked_columns, tieLow, now)
            ELSE Scd2Loop(merged, i + 1, st, business_key, tracked_columns,
                          tieLow, now)

Scd2Result(tbl, applied, business_key, tracked_columns, df_new, tieLow, now) ==
    LET df_current == RowsById({r \in tbl : r.est_actif = 1}, "geo_id")
        st0 == [tbl |-> tbl, nb_changes |-> 0, applied |-> applied]
    IN IF df_current = <<>>
       THEN st0
       ELSE Scd2Loop(Merge(df_new, df_current, business_key, 1), 1, st0,
                     business_key, tracked_columns, tieLow, now)

(***************************************************************************)
(* apply_scd_type3: keep the previous value in a column of its own.        *)
(***************************************************************************)
\* UPDATE table SET prev = cur, cur = :new_val, date_col = GETDATE(),
\*        date_modification = GETDATE() WHERE bk = :bk
UpdateType3SansAncien(tbl, business_key, current_column, previous_column, date_column, bk, new_val, now) ==
    { IF r[business_key] = bk
      THEN [r EXCEPT ![current_column] = StrV(str(new_val)),
                     ![date_column] = now,
                     !.date_modification = now]
      ELSE r : r \in tbl }

UpdateType3(tbl, business_key, current_column, previous_column, date_column, bk, new_val, now) ==
    { IF r[business_key] = bk
      THEN [r EXCEPT ![previous_column] = r[current_column],
                     ![current_column] = StrV(str(new_val)),
                     ![date_column] = now,
                     !.date_modification = now]
      ELSE r : r \in tbl }

RECURSIVE Scd3Loop(_, _, _, _, _, _, _, _)
Scd3Loop(merged, i, st, business_key, current_column, previous_column, date_column, now) ==
    IF i > Len(merged) THEN st
    ELSE LET row == merged[i]
             new_val == row.new[current_column]
             old_val == row.old[current_column]
         IN IF ValueChanged(new_val, old_val)
            THEN Scd3Loop(merged, i + 1,
                          [tbl |-> UpdateType3(st.tbl, business_key, current_column,
                                               previous_column, date_column,
                                               row.new[business_key], new_val, now),
                           nb_changes |-> st.nb_changes + 1],
                          business_key, current_column, previous_column,
                          date_column, now)
            ELSE Scd3Loop(merged, i + 1, st, business_key, current_column,
                          previous_column, date_column, now)

Scd3Result(tbl, idcol, business_key, current_column, previous_column, date_column, df_new, now) ==
    LET df_current == RowsById(tbl, idcol)
    IN IF df_current = <<>>
       THEN [tbl |-> tbl, nb_changes |-> 0]
       ELSE Scd3Loop(Merge(df_new, df_current, business_key, 1), 1,
                     [tbl |-> tbl, nb_changes |-> 0],
                     business_key, current_column, previous_column,
                     date_column, now)

(***************************************************************************)
(* Staged data handed to the policies (df_new).                            *)
(***************************************************************************)
SeqsUpTo(S, n) == UNION {[1..k -> S] : k \in 1..n}

StagedGeoRows ==
    [departement_code : GeoKeys,
     departement_nom : {NULL, StrV("Nord-Revise")},
     region_code : {NULL, IntV("32"), StrV("33")}]

StagedActRows ==
    [naf_section_code : ActKeys,
     naf_section_libelle : {NULL, IntV("7"), StrV("Commerce")}]

StagedPcsRows ==
    [pcs_code : PcsKeys,
     pcs_libelle : {NULL, StrV("Exploitants"), IntV("7")}]

NoCall == [op |-> "none"]

ScdInit ==
    /\ dim_geographie = DimGeoInit
    /\ dim_activite = DimActInit
    /\ dim_demographie = DimDemoInit
    /\ dim_versionnee = DimVersionneeInit
    /\ log_etl = {}
    /\ clock = 0
    /\ nb_applied = [k \in GeoKeys |-> 0]
    /\ last = NoCall
    /\ dim_temps = DimTempsInit
    /\ staging = [t \in StagingTables |-> Absent]
    /\ faits = EmptyFacts
    /\ MainAtRest
    /\ PipelineAtRest

LogSucces(log, etape, table, nb_changes) ==
    IF nb_changes > 0 THEN log_etl_db(log, etape, table, "SUCCES", nb_changes) ELSE log

apply_scd_type1(df_new) ==
    /\ clock < MaxCalls
    /\ LET now == clock + 1
           res == Scd1Result(dim_activite, "activite_id", "naf_section_code",
                             "naf_section_libelle", df_new, now)
       IN /\ dim_activite' = res.tbl
          /\ log_etl' = LogSucces(log_etl, "SCD_TYPE1", "dwh.dim_activite",
                                  res.nb_changes)
          /\ last' = [op |-> "scd1", df_new |-> df_new, before |-> dim_activite,
                      ret |-> res.nb_changes]
          /\ clock' = now
    /\ UNCHANGED <<dim_geographie, dim_demographie, dim_versionnee, nb_applied, fact_vars>>

apply_scd_type2(df_new, tieLow) ==
    /\ clock < MaxCalls
    /\ LET now == clock + 1
           res == Scd2Result(dim_geographie, nb_applied, "departement_code",
                             TrackedColumns, df_new, tieLow, now)
       IN /\ dim_geographie' = res.tbl
          /\ nb_applied' = res.applied
          /\ log_etl' = LogSucces(log_etl, "SCD_TYPE2", "dwh.dim_geographie",
                                  res.nb_changes)
          /\ last' = [op |-> "scd2", df_new |-> df_new, before |-> dim_geographie,
                      ret |-> res.nb_changes]
          /\ clock' = now
    /\ UNCHANGED <<dim_activite, dim_demographie, dim_versionnee, fact_vars>>

apply_scd_type3(df_new) ==
    /\ clock < MaxCalls
    /\ LET now == clock + 1
           res == Scd3Result(dim_demographie, "demo_id", "pcs_code", "pcs_libelle",
                             "ancien_pcs_libelle", "date_changement_pcs",
                             df_new, now)
       IN /\ dim_demographie' = res.tbl
          /\ log_etl' = LogSucces(log_etl, "SCD_TYPE3", "dwh.dim_demographie",
                                  res.nb_changes)
          /\ last' = [op |-> "scd3", df_new |-> df_new, before |-> dim_demographie,
                      ret |-> res.nb_changes]
          /\ clock' = now
    /\ UNCHANGED <<dim_geographie, dim_activite, dim_versionnee, nb_applied, fact_vars>>

ScdType1 == \E df_new \in SeqsUpTo(StagedActRows, MaxStaged) : apply_scd_type1(df_new)

ScdType2 ==
    \E df_new \in SeqsUpTo(StagedGeoRows, MaxStaged), tieLow \in BOOLEAN :
        apply_scd_type2(df_new, tieLow)

ScdType3 == \E df_new \in SeqsUpTo(StagedPcsRows, MaxStaged) : apply_scd_type3(df_new)

ScdNext == ScdType1 \/ ScdType2 \/ ScdType3

SpecScd == ScdInit /\ [][ScdNext]_vars

(***************************************************************************)
(* Claims about the SCD engine.                                            *)
(***************************************************************************)
RowsOfKey(tbl, business_key, k) == {r \in tbl : r[business_key] = k}

\* C1: for every business key of the Type-2 dimension, after N applied
\* changes exactly one row has est_actif = 1, its version is N + 1, and there
\* are exactly N rows with est_actif = 0, of strictly increasing version and
\* with a date_fin_validite that is not null.
C1_Type2History ==
    \A k \in GeoKeys :
        LET rows == RowsOfKey(dim_geographie, "departement_code", k)
            active == {r \in rows : r.est_actif = 1}
            closed == {r \in rows : r.est_actif = 0}
        IN /\ Cardinality(active) = 1
           /\ \A r \in active : r.version = nb_applied[k] + 1
           /\ Cardinality(closed) = nb_applied[k]
           /\ \A r, q \in closed : r.geo_id < q.geo_id => r.version < q.version
           /\ \A r \in closed : r.date_fin_validite # 0

\* the staged rows of the last call, by position, that differ from row `a`
\* in a tracked column where both values are present
DetectedAt(a) ==
    {i \in DOMAIN last.df_new :
        /\ last.df_new[i].departement_code = a.departement_code
        /\ \E col \in {"departement_nom", "region_code"} :
              /\ last.df_new[i][col].typ # "null"
              /\ a[col].typ # "null"
              /\ last.df_new[i][col].repr # a[col].repr}

IdsBefore == {r.geo_id : r \in last.before}

\* C2: when apply_scd_type2 detects a change for a key that had one active
\* row at version v, that row is now closed (est_actif = 0, date_fin_validite
\* set, version v) and the key has exactly one active row, a new one, with
\* version v + 1, no date_fin_validite, the staged non-null tracked values
\* and the non-tracked attributes of the closed row; the returned count is
\* the number of versions created.
C2_Type2Change ==
    last.op = "scd2" =>
        /\ last.ret = Cardinality({r \in dim_geographie : r.geo_id \notin IdsBefore})
        /\ \A k \in GeoKeys :
            LET was == {r \in RowsOfKey(last.before, "departement_code", k) :
                            r.est_actif = 1}
                now == {r \in RowsOfKey(dim_geographie, "departement_code", k) :
                            r.est_actif = 1}
            IN \A a \in was :
                (Cardinality(was) = 1 /\ DetectedAt(a) # {}) =>
                    LET i == CHOOSE j \in DetectedAt(a) :
                                 \A h \in DetectedAt(a) : h <= j
                        staged == last.df_new[i]
                    IN /\ \E r \in dim_geographie :
                            /\ r.geo_id = a.geo_id
                            /\ r.est_actif = 0
                            /\ r.date_fin_validite # 0
                            /\ r.version = a.version
                       /\ Cardinality(now) = 1
                       /\ \A n \in now :
                            /\ n.geo_id \notin IdsBefore
                            /\ n.version = a.version + 1
                            /\ n.date_fin_validite = 0
                            /\ \A col \in {"departement_nom", "region_code"} :
                                 staged[col].typ # "null" =>
                                     n[col].repr = staged[col].repr
                            /\ n.geo_code_source = a.geo_code_source

C2_Witness ==
    /\ last.op = "scd2"
    /\ last.ret = 1
    /\ \E a \in last.before :
          /\ a.est_actif = 1
          /\ DetectedAt(a) # {}
          /\ \E i \in DetectedAt(a) : last.df_new[i].region_code.typ = "null"

\* the table, the business key and the tracked columns of the last call, and
\* the rows that call compared the staged rows with
LastTable ==
    IF last.op = "scd1" THEN dim_activite
    ELSE IF last.op = "scd2" THEN dim_geographie ELSE dim_demographie

LastKey ==
    IF last.op = "scd1" THEN "naf_section_code"
    ELSE IF last.op = "scd2" THEN "departement_code" ELSE "pcs_code"

LastTracked ==
    IF last.op = "scd1" THEN {"naf_section_libelle"}
    ELSE IF last.op = "scd2" THEN {"departement_nom", "region_code"}
    ELSE {"pcs_libelle"}

LastCompared ==
    IF last.op = "scd2" THEN {r \in last.before : r.est_actif = 1} ELSE last.before

\* the pairs (staged row, current row) of one business key
LastPairs ==
    {p \in (DOMAIN last.df_new) \X LastCompared :
        last.df_new[p[1]][LastKey] = p[2][LastKey]}

BothPresentAndDiffer(p) ==
    \E col \in LastTracked :
        /\ last.df_new[p[1]][col].typ # "null"
        /\ p[2][col].typ # "null"
        /\ last.df_new[p[1]][col].repr # p[2][col].repr

\* C3: in the three policies a tracked value counts as changed only if the old
\* and the new value are both non-null and their string representations
\* differ: the returned counter counts exactly those comparisons, and a
\* business key none of whose comparisons is of that kind (a null on either
\* side, or equal strings) has no row written.
C3_ChangeDetection ==
    last.op # "none" =>
        /\ last.ret = Cardinality({p \in LastPairs : BothPresentAndDiffer(p)})
        /\ \A k \in {r[LastKey] : r \in last.before} :
              (\A p \in LastPairs : p[2][LastKey] = k => ~BothPresentAndDiffer(p))
                  => RowsOfKey(LastTable, LastKey, k) = RowsOfKey(last.before, LastKey, k)

NullAgainstValue(p) ==
    \E col \in LastTracked :
        last.df_new[p[1]][col].typ = "null" /\ p[2][col].typ # "null"

ValueAgainstNull(p) ==
    \E col \in LastTracked :
        last.df_new[p[1]][col].typ # "null" /\ p[2][col].typ = "null"

SameStringOtherType(p) ==
    \E col \in LastTracked :
        /\ last.df_new[p[1]][col].typ = "int"
        /\ p[2][col].typ = "str"
        /\ last.df_new[p[1]][col].repr = p[2][col].repr

C3_Witness ==
    /\ last.op = "scd1"
    /\ last.ret = 0
    /\ dim_activite = last.before
    /\ \E p \in LastPairs : NullAgainstValue(p)
    /\ \E p \in LastPairs : ValueAgainstNull(p)
    /\ \E p \in LastPairs : SameStringOtherType(p)

(***************************************************************************)
(*                                                                         *)
(*               Fact loading (analytics/etl/load_facts.py)                *)
(*                                                                         *)
(***************************************************************************)

(***************************************************************************)
(* Strings of column names and codes: str.upper(), str.lower(),            *)
(* str.zfill(width) and int(str), character by character.                  *)
(***************************************************************************)
LowerChars == <<"a","b","c","d","e","f","g","h","i","j","k","l","m",
                "n","o","p","q","r","s","t","u","v","w","x","y","z">>

UpperChars == <<"A","B","C","D","E","F","G","H","I","J","K","L","M",
                "N","O","P","Q","R","S","T","U","V","W","X","Y","Z">>

Digits == {"0","1","2","3","4","5","6","7","8","9"}

UpperChar(c) ==
    IF \E i \in 1..26 : LowerChars[i] = c
    THEN UpperChars[CHOOSE i \in 1..26 : LowerChars[i] = c] ELSE c

LowerChar(c) ==
    IF \E i \in 1..26 : UpperChars[i] = c
    THEN LowerChars[CHOOSE i \in 1..26 : UpperChars[i] = c] ELSE c

RECURSIVE upper(_)
upper(s) ==
    IF Len(s) = 0 THEN ""
    ELSE UpperChar(SubSeq(s, 1, 1)) \o upper(SubSeq(s, 2, Len(s)))

RECURSIVE lower(_)
lower(s) ==
    IF Len(s) = 0 THEN ""
    ELSE LowerChar(SubSeq(s, 1, 1)) \o lower(SubSeq(s, 2, Len(s)))

RECURSIVE zfill(_, _)
zfill(s, width) == IF Len(s) >= width THEN s ELSE zfill("0" \o s, width)

IsDigits(s) ==
    /\ Len(s) > 0
    /\ \A i \in 1..Len(s) : SubSeq(s, i, i) \in Digits

\* a measure cell: a number, or NaN / None
Num(n) == [na |-> FALSE, val |-> n]
NaN == [na |-> TRUE, val |-> 0]

\* the result of an element-wise conversion that can raise
Raised(e) == [typ |-> "raise", repr |-> e]
IsRaised(v) == v.typ = "raise"

\* Series.astype(int) on one cell: an int stays, a string of digits is
\* parsed, anything else raises
AsInt(v) ==
    IF v.typ = "int" THEN v
    ELSE IF v.typ = "str" /\ IsDigits(v.repr) THEN IntV(v.repr)
    ELSE Raised("ValueError")

\* Series.astype(str) on one cell
AsStr(v) == StrV(str(v))

\* Series.str.zfill(2) on one cell of a column of strings (NaN stays NaN)
StrZfill2(v) == IF v.typ = "str" THEN StrV(zfill(v.repr, 2)) ELSE NULL

(***************************************************************************)
(* Staged data read by the fact loaders.                                   *)
(***************************************************************************)
\* the reference extract of each source
StgPopulationRef ==
    Staged(<< [YEAR |-> StrV("2010"), GEO_CODE |-> StrV("2"),
               POPULATION_VALUE |-> Num(5)],
              [YEAR |-> StrV("2011"), GEO_CODE |-> StrV("59"),
               POPULATION_VALUE |-> Num(7)] >>)

StgNaissancesRef ==
    Staged(<< [YEAR |-> IntV("2012"), GEO_CODE |-> IntV("2"), BIRTH_COUNT |-> Num(4)] >>)

StgDecesRef ==
    Staged(<< [year |-> IntV("2012"), geo_code |-> StrV("02"), death_count |-> Num(3)] >>)

StgCreationEntreprisesRef ==
    Staged(<< [year |-> IntV("2010"), departement |-> IntV("59"),
               creation_count |-> Num(3)],
              [year |-> IntV("2010"), departement |-> IntV("59"),
               creation_count |-> Num(4)] >>)

StgDsFilosofiRef ==
    Staged(<< [geo_code |-> StrV("59"), indicator_code |-> StrV("MED_SL"),
               indicator_value |-> Num(20)] >>)

StgEmploiChomageRef ==
    Staged(<< [TIME_PERIOD |-> StrV("2012"), DEPARTEMENT |-> StrV("59"),
               EMPSTA_ENQ |-> StrV("1T2"), OBS_VALUE |-> Num(10)],
              [TIME_PERIOD |-> StrV("2012"), DEPARTEMENT |-> StrV("59"),
               EMPSTA_ENQ |-> StrV("2"), OBS_VALUE |-> Num(1)] >>)

StgMenageRef ==
    Staged(<< [TIME_PERIOD |-> IntV("2010"), DEPARTEMENT |-> IntV("2"),
               RP_MEASURE |-> StrV("DWELLINGS"), OBS_VALUE |-> Num(2)] >>)

StgMenagesRef ==
    Staged(<< [TIME_PERIOD |-> IntV("2012"), DEPARTEMENT |-> IntV("59"),
               RP_MEASURE |-> StrV("DWELLINGS_POPSIZE"), OBS_VALUE |-> Num(9)] >>)

\* the staging tables after an export of the reference extracts: the
\* households extract is exported as stg_menage, there is no stg_menages
StagingRef ==
    [stg_population |-> StgPopulationRef, stg_naissances |-> StgNaissancesRef,
     stg_deces |-> StgDecesRef, stg_creation_entreprises |-> StgCreationEntreprisesRef,
     stg_ds_filosofi |-> StgDsFilosofiRef, stg_emploi_chomage |-> StgEmploiChomageRef,
     stg_menage |-> StgMenageRef, stg_menages |-> Absent]

\* what an export can leave instead, per source: no table, an extract with a
\* text period, an extract of a period outside dim_temps, or the households
\* extract under its other name
StagingAutre ==
    [stg_population |-> Absent, stg_naissances |-> Absent, stg_deces |-> Absent,
     stg_creation_entreprises |->
        Staged(<< [year |-> StrV("n.d."), departement |-> IntV("59"),
                   creation_count |-> Num(3)] >>),
     stg_ds_filosofi |-> Absent,
     stg_emploi_chomage |->
        Staged(<< [TIME_PERIOD |-> StrV("2011"), DEPARTEMENT |-> StrV("59"),
                   EMPSTA_ENQ |-> StrV("1T2"), OBS_VALUE |-> Num(10)] >>),
     stg_menage |-> Absent, stg_menages |-> StgMenagesRef]

\* the exports in which at most MaxEcarts sources differ from the reference
StagingChoices ==
    {[t \in StagingTables |-> IF t \in ecarts THEN StagingAutre[t] ELSE StagingRef[t]] :
        ecarts \in {e \in SUBSET StagingTables : Cardinality(e) <= MaxEcarts}}

\* extracts that name their columns otherwise: two period columns, no period
\* column, upper-case FILOSOFI columns, and an extract without unemployed
StgPopulationDeuxPeriodes ==
    Staged(<< [YEAR |-> StrV("2011"), TIME_PERIOD |-> StrV("2010"),
               GEO_CODE |-> StrV("2"), POPULATION_VALUE |-> Num(5)] >>)

StgPopulationSansPeriode ==
    Staged(<< [GEO_CODE |-> StrV("2"), POPULATION_VALUE |-> Num(5)] >>)

StgDsFilosofiMajuscules ==
    Staged(<< [YEAR |-> IntV("2010"), GEO_CODE |-> StrV("59"),
               INDICATOR_CODE |-> StrV("MED_SL"), INDICATOR_VALUE |-> Num(20)] >>)

StgEmploiDeuxPeriodes ==
    Staged(<< [TIME_PERIOD |-> StrV("2012"), YEAR |-> StrV("2011"),
               DEPARTEMENT |-> StrV("59"), EMPSTA_ENQ |-> StrV("1T2"),
               OBS_VALUE |-> Num(10)] >>)

StgEmploiSansPeriode ==
    Staged(<< [DEPARTEMENT |-> StrV("59"), EMPSTA_ENQ |-> StrV("1T2"),
               OBS_VALUE |-> Num(10)] >>)

StgEmploiSansChomeurs ==
    Staged(<< [TIME_PERIOD |-> StrV("2012"), DEPARTEMENT |-> StrV("59"),
               EMPSTA_ENQ |-> StrV("1T2"), OBS_VALUE |-> Num(10)],
              [TIME_PERIOD |-> StrV("2012"), DEPARTEMENT |-> StrV("59"),
               EMPSTA_ENQ |-> StrV("2"), OBS_VALUE |-> Num(0)] >>)

\* a births extract with two rows for one year and department
StgNaissancesDeuxLignes ==
    Staged(<< [YEAR |-> IntV("2012"), GEO_CODE |-> IntV("2"), BIRTH_COUNT |-> Num(4)],
              [YEAR |-> IntV("2012"), GEO_CODE |-> IntV("2"), BIRTH_COUNT |-> Num(6)] >>)

Variantes ==
    { [table |-> "stg_population", frame |-> Absent],
      [table |-> "stg_naissances", frame |-> StgNaissancesDeuxLignes],
      [table |-> "stg_population", frame |-> StgPopulationDeuxPeriodes],
      [table |-> "stg_population", frame |-> StgPopulationSansPeriode],
      [table |-> "stg_creation_entreprises",
       frame |-> StagingAutre["stg_creation_entreprises"]],
      [table |-> "stg_ds_filosofi", frame |-> StgDsFilosofiMajuscules],
      [table |-> "stg_emploi_chomage", frame |-> StgEmploiDeuxPeriodes],
      [table |-> "stg_emploi_chomage", frame |-> StgEmploiSansPeriode],
      [table |-> "stg_emploi_chomage", frame |-> StgEmploiSansChomeurs] }

\* the exports in which one source is replaced by one of these extracts
StagingVariantes ==
    {StagingRef} \cup {[StagingRef EXCEPT ![v.table] = v.frame] : v \in Variantes}

\* the column names that occur in staged data; c.upper() and c.lower() of
\* each, computed once
FrameColumns(df) == UNION {DOMAIN df[i] : i \in 1..Len(df)}

ColumnNames ==
    {"YEAR", "TIME_PERIOD", "GEO_CODE", "POPULATION_VALUE", "BIRTH_COUNT",
     "year", "geo_code", "death_count", "departement", "creation_count",
     "indicator_code", "indicator_value", "INDICATOR_CODE", "INDICATOR_VALUE",
     "DEPARTEMENT", "EMPSTA_ENQ", "OBS_VALUE", "RP_MEASURE"}

\* every column of every staged extract is among them
StagedColumns ==
    UNION {FrameColumns(stg[t].rows) :
              stg \in StagingChoices \cup StagingVariantes, t \in StagingTables}

UpperOf == [c \in ColumnNames |-> upper(c)]

LowerOf == [c \in ColumnNames |-> lower(c)]

(***************************************************************************)
(* get_dim_mapping: dict(zip(lookup, key)).  The SELECT carries no ORDER   *)
(* BY and no est_actif filter: of the rows that share a lookup value the   *)
(* one the store returns last is kept, so every row of the value can be.   *)
(***************************************************************************)
PossibleMappings(tbl, key_col, lookup_col) ==
    {m \in [{r[lookup_col] : r \in tbl} -> {r[key_col] : r \in tbl}] :
        \A v \in DOMAIN m :
            \E r \in tbl : r[lookup_col] = v /\ r[key_col] = m[v]}

\* Series.map(mapping) on one cell; 0 stands for NaN (identities start at 1).
\* The keys of temps_map are ints, the keys of geo_map are strings.
MapCell(mapping, v, key_typ) ==
    IF v.typ = key_typ /\ v.repr \in DOMAIN mapping THEN mapping[v.repr] ELSE 0

\* SELECT MIN(id) FROM dim; result.scalar() or 1
DefaultId(tbl, key_col) ==
    IF tbl = {} THEN 1
    ELSE (CHOOSE r \in tbl : \A q \in tbl : r[key_col] <= q[key_col])[key_col]

(***************************************************************************)
(* DataFrame helpers.  A frame is a sequence of rows over the same columns.*)
(***************************************************************************)
Columns(df) == DOMAIN df[1]

\* col_map = {c.upper(): c for c in df.columns}
InColMap(cols, name) == \E c \in cols : UpperOf[c] = name
ColMapGet(cols, name) == CHOOSE c \in cols : UpperOf[c] = name

\* a column whose cells are all numbers: the .str accessor raises on it
NumericColumn(df, col) ==
    /\ \A i \in 1..Len(df) : df[i][col].typ \in {"int", "null"}
    /\ \E i \in 1..Len(df) : df[i][col].typ = "int"

\* what a loader hands back to main(): a count, or an exception
Returned(nb, rows, calls) ==
    [raised |-> FALSE, erreur |-> "", nb |-> nb, insert |-> rows, calls |-> calls,
     journal |-> {}]

Raises(e, calls) ==
    [raised |-> TRUE, erreur |-> e, nb |-> 0, insert |-> <<>>, calls |-> calls,
     journal |-> {}]

Call(op, target) == [op |-> op, target |-> target]

\* a foreign key of a fact table: the store refuses a row whose dimension
\* identity does not exist.  The tests require foreign keys on the fact
\* tables (all three of fait_emploi); the DDL is not part of the sources, so
\* for the other tables fk_enforced is either.
ForeignKeysHold(rows, fk_col, dim, key_col) ==
    \A row \in rows : \E r \in dim : r[key_col] = row[fk_col]

Range(sq) == {sq[i] : i \in 1..Len(sq)}

\* the bag of the rows of a frame
RECURSIVE SeqToBag(_)
SeqToBag(sq) ==
    IF sq = <<>> THEN EmptyBag ELSE SetToBag({Head(sq)}) (+) SeqToBag(Tail(sq))

\* SELECT COUNT(*) FROM dwh.fait_x ... if result.scalar() > 0
DejaAlimenteeJamais(fait) == FALSE

DejaAlimentee(fait) == BagCardinality(fait) > 0

\* Series.sum() of a measure column: NaN cells are skipped
RECURSIVE SumCol(_, _)
SumCol(df, col) ==
    IF df = <<>> THEN 0
    ELSE (IF df[1][col].na THEN 0 ELSE df[1][col].val) + SumCol(Tail(df), col)

\* a derived ratio: the quotient num / den, or None
Ratio(num, den) == [na |-> FALSE, num |-> num, den |-> den]
NoRatio == [na |-> TRUE, num |-> 0, den |-> 1]

\* the built-in int(x)
int(v) == AsInt(v)

\* col_map.get(a, col_map.get(b)): "" stands for None
ColMapGet2(cols, a, b) ==
    IF InColMap(cols, a) THEN ColMapGet(cols, a)
    ELSE IF InColMap(cols, b) THEN ColMapGet(cols, b) ELSE ""

\* col_map.get(a, col_map.get(b, default))
ColMapGet3(cols, a, b, default) ==
    IF InColMap(cols, a) THEN ColMapGet(cols, a)
    ELSE IF InColMap(cols, b) THEN ColMapGet(cols, b) ELSE default

\* the first of three aliases found in col_map, "" when none is
FirstAlias(cols, a, b, c) ==
    IF InColMap(cols, a) THEN ColMapGet(cols, a)
    ELSE IF InColMap(cols, b) THEN ColMapGet(cols, b)
    ELSE IF InColMap(cols, c) THEN ColMapGet(cols, c) ELSE ""

(***************************************************************************)
(* load_fait_population                                                    *)
(***************************************************************************)
load_fait_population(stg, fait, temps_map, geo_map, dim_demo, fk_enforced) ==
    LET src == stg["stg_population"]
        c1 == {Call("INFORMATION_SCHEMA", "stg_population")}
        c2 == c1 \cup {Call("read_sql", "dbo.stg_population")}
        c3 == c2 \cup {Call("read_sql", "dwh.dim_temps"),
                       Call("read_sql", "dwh.dim_geographie")}
        c4 == c3 \cup {Call("read_sql", "dwh.dim_demographie")}
        c5 == c4 \cup {Call("read_sql", "dwh.fait_population")}
        c6 == c5 \cup {Call("to_sql", "dwh.fait_population")}
        df_stg == src.rows
        cols == Columns(df_stg)
        annee_col == ColMapGet2(cols, "YEAR", "TIME_PERIOD")
        annee(row) == AsInt(row[annee_col])
        geo_code == InColMap(cols, "GEO_CODE")
        dept_col == ColMapGet2(cols, "GEO_CODE", "DEPARTEMENT")
        dept_code(row) ==
            IF geo_code THEN StrZfill2(row[dept_col])
            ELSE StrV(zfill(str(row[dept_col]), 2))
        default_demo_id == DefaultId(dim_demo, "demo_id")
        pop_col == ColMapGet2(cols, "POPULATION_VALUE", "OBS_VALUE")
        df_fact == [i \in 1..Len(df_stg) |->
                      [temps_id |-> MapCell(temps_map, annee(df_stg[i]), "int"),
                       geo_id |-> MapCell(geo_map, dept_code(df_stg[i]), "str"),
                       demo_id |-> default_demo_id,
                       population |-> df_stg[i][pop_col],
                       source_fichier |-> "stg_population"]]
        valid(row) == row.temps_id # 0 /\ row.geo_id # 0
        df_insert == SelectSeq(df_fact, valid)
    IN IF ~src.exists THEN Returned(0, EmptyBag, c1)
       ELSE IF df_stg = <<>> THEN Returned(0, EmptyBag, c2)
       ELSE IF annee_col = "" THEN Raises("KeyError: 'annee'", c3)
       ELSE IF \E i \in 1..Len(df_stg) : IsRaised(annee(df_stg[i]))
            THEN Raises("ValueError: invalid literal for int()", c3)
       ELSE IF dept_col = "" THEN Raises("KeyError: 'dept_code'", c3)
       ELSE IF geo_code /\ NumericColumn(df_stg, dept_col)
            THEN Raises("AttributeError: Can only use .str accessor with string values", c3)
       ELSE IF pop_col = "" THEN Raises("KeyError: 'population'", c4)
       ELSE IF df_insert = <<>> THEN Returned(0, EmptyBag, c4)
       ELSE IF DejaAlimentee(fait) THEN Returned(0, EmptyBag, c5)
       ELSE IF fk_enforced /\ ~ForeignKeysHold(Range(df_insert), "demo_id", dim_demo, "demo_id")
            THEN Raises("IntegrityError: FOREIGN KEY constraint", c6)
       ELSE Returned(Len(df_insert), SeqToBag(df_insert), c6)

(***************************************************************************)
(* load_fait_evenements_demo                                               *)
(***************************************************************************)
\* row.get(name, default) once the column names are lower-cased
RowGet(row, name, default) ==
    IF \E c \in DOMAIN row : LowerOf[c] = name
    THEN row[CHOOSE c \in DOMAIN row : LowerOf[c] = name] ELSE default

EvtAnnee(row) == int(RowGet(row, "year", RowGet(row, "time_period", IntV("0"))))

EvtDept(row) ==
    zfill(str(RowGet(row, "geo_code", RowGet(row, "departement", StrV("")))), 2)

\* for _, row in df_naiss.iterrows()
RECURSIVE NaissLoop(_, _, _, _, _)
NaissLoop(df_naiss, i, records, temps_map, geo_map) ==
    IF i > Len(df_naiss) THEN [raised |-> FALSE, records |-> records]
    ELSE LET row == df_naiss[i]
             annee == EvtAnnee(row)
             temps_id == MapCell(temps_map, annee, "int")
             geo_id == MapCell(geo_map, StrV(EvtDept(row)), "str")
             naissances == RowGet(row, "birth_count", RowGet(row, "obs_value", Num(0)))
         IN IF IsRaised(annee) THEN [raised |-> TRUE, records |-> records]
            ELSE IF temps_id # 0 /\ geo_id # 0
                 THEN NaissLoop(df_naiss, i + 1,
                                Append(records, [temps_id |-> temps_id, geo_id |-> geo_id,
                                                 naissances |-> naissances, deces |-> NaN]),
                                temps_map, geo_map)
                 ELSE NaissLoop(df_naiss, i + 1, records, temps_map, geo_map)

\* for _, row in df_deces.iterrows(): the first record of the pair gets the
\* deaths, a new record is appended when there is none
RECURSIVE DecesLoop(_, _, _, _, _)
DecesLoop(df_deces, i, records, temps_map, geo_map) ==
    IF i > Len(df_deces) THEN [raised |-> FALSE, records |-> records]
    ELSE LET row == df_deces[i]
             annee == EvtAnnee(row)
             temps_id == MapCell(temps_map, annee, "int")
             geo_id == MapCell(geo_map, StrV(EvtDept(row)), "str")
             deces == RowGet(row, "death_count", RowGet(row, "obs_value", Num(0)))
             hits == {j \in 1..Len(records) :
                        records[j].temps_id = temps_id /\ records[j].geo_id = geo_id}
             first == CHOOSE j \in hits : \A k \in hits : j <= k
         IN IF IsRaised(annee) THEN [raised |-> TRUE, records |-> records]
            ELSE IF temps_id # 0 /\ geo_id # 0
                 THEN DecesLoop(df_deces, i + 1,
                                IF hits # {}
                                THEN [records EXCEPT ![first].deces = deces]
                                ELSE Append(records, [temps_id |-> temps_id, geo_id |-> geo_id,
                                                      naissances |-> NaN, deces |-> deces]),
                                temps_map, geo_map)
                 ELSE DecesLoop(df_deces, i + 1, records, temps_map, geo_map)

load_fait_evenements_demo(stg, fait, temps_map, geo_map) ==
    LET c1 == {Call("INFORMATION_SCHEMA", "stg_naissances"),
               Call("INFORMATION_SCHEMA", "stg_deces")}
        c2 == c1 \cup {Call("read_sql", "dbo.stg_naissances"),
                       Call("read_sql", "dbo.stg_deces")}
        c3 == c2 \cup {Call("read_sql", "dwh.dim_temps"),
                       Call("read_sql", "dwh.dim_geographie")}
        c5 == c3 \cup {Call("read_sql", "dwh.fait_evenements_demo")}
        c6 == c5 \cup {Call("to_sql", "dwh.fait_evenements_demo")}
        df_naiss == stg["stg_naissances"].rows
        df_deces == stg["stg_deces"].rows
        naiss == NaissLoop(df_naiss, 1, <<>>, temps_map, geo_map)
        both == DecesLoop(df_deces, 1, naiss.records, temps_map, geo_map)
        df_fact == [i \in 1..Len(both.records) |->
                      [temps_id |-> both.records[i].temps_id,
                       geo_id |-> both.records[i].geo_id,
                       naissances |-> both.records[i].naissances,
                       deces |-> both.records[i].deces,
                       source_fichier |-> "stg_naissances_deces"]]
    IN IF ~(stg["stg_naissances"].exists /\ stg["stg_deces"].exists)
       THEN Returned(0, EmptyBag, c1)
       ELSE IF df_naiss = <<>> /\ df_deces = <<>> THEN Returned(0, EmptyBag, c2)
       ELSE IF naiss.raised \/ both.raised
            THEN Raises("ValueError: invalid literal for int()", c3)
       ELSE IF both.records = <<>> THEN Returned(0, EmptyBag, c3)
       ELSE IF DejaAlimentee(fait) THEN Returned(0, EmptyBag, c5)
       ELSE Returned(Len(df_fact), SeqToBag(df_fact), c6)

(***************************************************************************)
(* load_fait_entreprises                                                   *)
(***************************************************************************)
load_fait_entreprises(stg, fait, temps_map, geo_map, dim_act, fk_enforced) ==
    LET src == stg["stg_creation_entreprises"]
        c1 == {Call("INFORMATION_SCHEMA", "stg_creation_entreprises")}
        c2 == c1 \cup {Call("read_sql", "dbo.stg_creation_entreprises")}
        c4 == c2 \cup {Call("read_sql", "dwh.dim_temps"),
                       Call("read_sql", "dwh.dim_geographie"),
                       Call("read_sql", "dwh.dim_activite")}
        c5 == c4 \cup {Call("read_sql", "dwh.fait_entreprises")}
        c6 == c5 \cup {Call("to_sql", "dwh.fait_entreprises")}
        df_stg == src.rows
        cols == Columns(df_stg)
        default_activite_id == DefaultId(dim_act, "activite_id")
        annee_col == ColMapGet2(cols, "YEAR", "TIME_PERIOD")
        dept_col == ColMapGet2(cols, "GEO_CODE", "DEPARTEMENT")
        value_col == ColMapGet2(cols, "CREATION_COUNT", "OBS_VALUE")
        annee(row) == AsInt(row[annee_col])
        dept_code(row) == zfill(str(row[dept_col]), 2)
        key(row) == <<annee(row).repr, dept_code(row)>>
        groups == {key(df_stg[i]) : i \in 1..Len(df_stg)}
        df_agg == {[temps_id |-> MapCell(temps_map, IntV(g[1]), "int"),
                    geo_id |-> MapCell(geo_map, StrV(g[2]), "str"),
                    activite_id |-> default_activite_id,
                    nb_creations_entreprises |->
                        LET in_group(row) == key(row) = g
                        IN Num(SumCol(SelectSeq(df_stg, in_group), value_col)),
                    source_fichier |-> "stg_creation_entreprises"] : g \in groups}
        df_insert == {row \in df_agg : row.temps_id # 0 /\ row.geo_id # 0}
    IN IF ~src.exists THEN Returned(0, EmptyBag, c1)
       ELSE IF df_stg = <<>> THEN Returned(0, EmptyBag, c2)
       ELSE IF annee_col = "" THEN Raises("KeyError: None", c4)
       ELSE IF \E i \in 1..Len(df_stg) : IsRaised(annee(df_stg[i]))
            THEN Raises("ValueError: invalid literal for int()", c4)
       ELSE IF dept_col = "" THEN Raises("KeyError: None", c4)
       ELSE IF value_col = "" THEN Raises("KeyError: None", c4)
       ELSE IF DejaAlimentee(fait) THEN Returned(0, EmptyBag, c5)
       ELSE IF fk_enforced /\ ~ForeignKeysHold(df_insert, "activite_id", dim_act, "activite_id")
            THEN Raises("IntegrityError: FOREIGN KEY constraint", c6)
       ELSE Returned(Cardinality(df_insert), SetToBag(df_insert), c6)

(***************************************************************************)
(* load_fait_revenus                                                       *)
(***************************************************************************)
\* col_mapping: FILOSOFI indicator code -> column of the fact table
col_mapping ==
    [revenu_median |-> "MED_SL", revenu_d1 |-> "D1_SL", revenu_d9 |-> "D9_SL",
     rapport_interdecile |-> "IR_D9_D1_SL", taux_pauvrete |-> "PR_MD60",
     part_revenus_activite |-> "S_EI_DI", part_pensions_retraites |-> "S_RET_PEN_DI",
     part_prestations_sociales |-> "S_SOC_BEN_DI", nb_menages |-> "NUM_HH",
     nb_personnes |-> "NUM_PER"]

load_fait_revenus(stg, fait, temps_map, geo_map) ==
    LET src == stg["stg_ds_filosofi"]
        c1 == {Call("INFORMATION_SCHEMA", "stg_ds_filosofi")}
        c2 == c1 \cup {Call("read_sql", "dbo.stg_ds_filosofi")}
        c3 == c2 \cup {Call("read_sql", "dwh.dim_temps"),
                       Call("read_sql", "dwh.dim_geographie")}
        c5 == c3 \cup {Call("read_sql", "dwh.fait_revenus")}
        c6 == c5 \cup {Call("to_sql", "dwh.fait_revenus")}
        df_stg == src.rows
        cols == Columns(df_stg)
        annee(row) == IF "year" \in cols THEN AsInt(row["year"]) ELSE IntV("2021")
        dept_col == IF "geo_code" \in cols THEN "geo_code" ELSE "departement"
        dept_code(row) == StrZfill2(row[dept_col])
        indicator_col ==
            IF "indicator_code" \in cols THEN "indicator_code" ELSE "filosofi_measure"
        value_col == IF "indicator_value" \in cols THEN "indicator_value" ELSE "obs_value"
        key(row) == <<annee(row).repr, dept_code(row).repr>>
        \* pivot_table: rows with a null key or a null value do not take part
        observed(row) ==
            notna(dept_code(row)) /\ notna(row[indicator_col]) /\ ~row[value_col].na
        obs == SelectSeq(df_stg, observed)
        groups == {key(obs[i]) : i \in 1..Len(obs)}
        \* aggfunc='first'
        First(g, code) ==
            LET hit(row) == key(row) = g /\ row[indicator_col] = StrV(code)
                hits == SelectSeq(obs, hit)
            IN IF hits = <<>> THEN NaN ELSE hits[1][value_col]
        df_pivot == {[c \in DOMAIN col_mapping \cup {"temps_id", "geo_id", "source_fichier"} |->
                        IF c = "temps_id" THEN MapCell(temps_map, IntV(g[1]), "int")
                        ELSE IF c = "geo_id" THEN MapCell(geo_map, StrV(g[2]), "str")
                        ELSE IF c = "source_fichier" THEN "stg_ds_filosofi"
                        ELSE First(g, col_mapping[c])] : g \in groups}
        df_insert == {row \in df_pivot : row.temps_id # 0 /\ row.geo_id # 0}
    IN IF ~src.exists THEN Returned(0, EmptyBag, c1)
       ELSE IF df_stg = <<>> THEN Returned(0, EmptyBag, c2)
       ELSE IF \E i \in 1..Len(df_stg) : IsRaised(annee(df_stg[i]))
            THEN Raises("ValueError: invalid literal for int()", c3)
       ELSE IF dept_col \notin cols THEN Raises("KeyError: 'departement'", c3)
       ELSE IF NumericColumn(df_stg, dept_col)
            THEN Raises("AttributeError: Can only use .str accessor with string values", c3)
       ELSE IF indicator_col \notin cols THEN Raises("KeyError: 'filosofi_measure'", c3)
       ELSE IF value_col \notin cols THEN Raises("KeyError: 'obs_value'", c3)
       ELSE IF DejaAlimentee(fait) THEN Returned(0, EmptyBag, c5)
       ELSE Returned(Cardinality(df_insert), SetToBag(df_insert), c6)

(***************************************************************************)
(* load_fait_emploi                                                        *)
(***************************************************************************)
\* group[group[col] == code]
CodeIs(row, col, code) == row[col].typ = "str" /\ row[col].repr = code

\* the loaders of fait_emploi and fait_menages write their own journal row
ReturnedLogged(nb, rows, calls, table) ==
    [raised |-> FALSE, erreur |-> "", nb |-> nb, insert |-> rows,
     calls |-> calls \cup {Call("log_etl_db", table)},
     journal |-> {[etape |-> "load_facts", table_cible |-> table,
                   statut |-> "SUCCES", nb_lignes |-> nb]}]

\* taux_chomage
TauxChomage(pop_active, pop_chomeurs) ==
    IF /\ ~pop_active.na /\ pop_active.val # 0
       /\ pop_active.val > 0
       /\ ~pop_chomeurs.na /\ pop_chomeurs.val # 0
    THEN Ratio(pop_chomeurs.val * 100, pop_active.val) ELSE NoRatio

load_fait_emploi(stg, fait, temps_map, geo_map, dim_demo) ==
    LET src == stg["stg_emploi_chomage"]
        c1 == {Call("INFORMATION_SCHEMA", "stg_emploi_chomage")}
        c2 == c1 \cup {Call("read_sql", "dbo.stg_emploi_chomage")}
        c4 == c2 \cup {Call("read_sql", "dwh.dim_temps"),
                       Call("read_sql", "dwh.dim_geographie"),
                       Call("read_sql", "dwh.dim_demographie")}
        c5 == c4 \cup {Call("read_sql", "dwh.fait_emploi")}
        c6 == c5 \cup {Call("to_sql", "dwh.fait_emploi")}
        df_stg == src.rows
        cols == Columns(df_stg)
        default_demo_id == DefaultId(dim_demo, "demo_id")
        annee_col == FirstAlias(cols, "TIME_PERIOD", "YEAR", "ANNEE")
        dept_col == FirstAlias(cols, "DEPARTEMENT", "DEPARTEMENT_CODE", "DEPT_CODE")
        obs_col == ColMapGet3(cols, "OBS_VALUE", "POPULATION_VALUE", "obs_value")
        empsta_col == ColMapGet3(cols, "EMPSTA_ENQ", "EMPLOYMENT_STATUS", "empsta_enq")
        annee(row) == AsInt(row[annee_col])
        dept_code(row) == zfill(str(row[dept_col]), 2)
        key(row) == <<annee(row).repr, dept_code(row)>>
        groups == {key(df_stg[i]) : i \in 1..Len(df_stg)}
        resolved == {g \in groups : /\ MapCell(temps_map, IntV(g[1]), "int") # 0
                                    /\ MapCell(geo_map, StrV(g[2]), "str") # 0}
        Of(g, code) ==
            LET hit(row) == key(row) = g /\ CodeIs(row, empsta_col, code)
            IN SelectSeq(df_stg, hit)
        Pop(g, code) ==
            IF Of(g, code) # <<>> THEN Num(SumCol(Of(g, code), obs_col)) ELSE NaN
        records == {[temps_id |-> MapCell(temps_map, IntV(g[1]), "int"),
                     geo_id |-> MapCell(geo_map, StrV(g[2]), "str"),
                     demo_id |-> default_demo_id,
                     population_active |-> Pop(g, "1T2"),
                     population_en_emploi |-> Pop(g, "1"),
                     population_chomeurs |-> Pop(g, "2"),
                     taux_chomage |-> TauxChomage(Pop(g, "1T2"), Pop(g, "2")),
                     source_fichier |-> "stg_emploi_chomage"] : g \in resolved}
    IN IF ~src.exists THEN Returned(0, EmptyBag, c1)
       ELSE IF df_stg = <<>> THEN Returned(0, EmptyBag, c2)
       ELSE IF annee_col = "" THEN Returned(0, EmptyBag, c4)
       ELSE IF \E i \in 1..Len(df_stg) : IsRaised(annee(df_stg[i]))
            THEN Raises("ValueError: invalid literal for int()", c4)
       ELSE IF dept_col = "" THEN Returned(0, EmptyBag, c4)
       ELSE IF resolved # {} /\ empsta_col \notin cols
            THEN Raises("KeyError: 'empsta_enq'", c4)
       ELSE IF /\ obs_col \notin cols
               /\ \E g \in resolved, code \in {"1T2", "1", "2"} : Of(g, code) # <<>>
            THEN Raises("KeyError: 'obs_value'", c4)
       ELSE IF records = {} THEN Returned(0, EmptyBag, c4)
       ELSE IF DejaAlimentee(fait) THEN Returned(0, EmptyBag, c5)
       ELSE IF ~ForeignKeysHold(records, "demo_id", dim_demo, "demo_id")
            THEN Raises("IntegrityError: FOREIGN KEY constraint", c6)
       ELSE ReturnedLogged(Cardinality(records), SetToBag(records), c6, "dwh.fait_emploi")

(***************************************************************************)
(* load_fait_menages                                                       *)
(***************************************************************************)
\* SELECT TABLE_NAME ... IN ('stg_menages', 'stg_menage'); scalar(): the
\* first row of the result, in an order the store chooses
ExistingMenageTables(stg) == {t \in {"stg_menages", "stg_menage"} : stg[t].exists}

\* table_name: None ("") when neither exists
MenageTableNames(stg) ==
    IF ExistingMenageTables(stg) = {} THEN {""} ELSE ExistingMenageTables(stg)

\* x.sum() or None
SumOrNone(df, col) == IF SumCol(df, col) = 0 THEN NaN ELSE Num(SumCol(df, col))

\* taille_moyenne_menage
TailleMoyenne(nb_menages, nb_personnes) ==
    IF /\ ~nb_menages.na /\ nb_menages.val # 0
       /\ nb_menages.val > 0
       /\ ~nb_personnes.na /\ nb_personnes.val # 0
    THEN Ratio(nb_personnes.val, nb_menages.val) ELSE NoRatio

load_fait_menages(stg, fait, temps_map, geo_map, table_name) ==
    LET c1 == {Call("INFORMATION_SCHEMA", "stg_menages"),
               Call("INFORMATION_SCHEMA", "stg_menage")}
        c2 == c1 \cup {Call("read_sql", "dbo." \o table_name)}
        c3 == c2 \cup {Call("read_sql", "dwh.dim_temps"),
                       Call("read_sql", "dwh.dim_geographie")}
        c5 == c3 \cup {Call("read_sql", "dwh.fait_menages")}
        c6 == c5 \cup {Call("to_sql", "dwh.fait_menages")}
        df_stg == stg[table_name].rows
        cols == Columns(df_stg)
        annee_col == FirstAlias(cols, "TIME_PERIOD", "YEAR", "ANNEE")
        dept_col == FirstAlias(cols, "DEPARTEMENT", "DEPARTEMENT_CODE", "DEPT_CODE")
        obs_col == ColMapGet3(cols, "OBS_VALUE", "MEASURE_VALUE", "obs_value")
        measure_col == IF InColMap(cols, "RP_MEASURE")
                       THEN ColMapGet(cols, "RP_MEASURE") ELSE "rp_measure"
        annee(row) == AsInt(row[annee_col])
        dept_code(row) == zfill(str(row[dept_col]), 2)
        key(row) == <<annee(row).repr, dept_code(row)>>
        groups == {key(df_stg[i]) : i \in 1..Len(df_stg)}
        resolved == {g \in groups : /\ MapCell(temps_map, IntV(g[1]), "int") # 0
                                    /\ MapCell(geo_map, StrV(g[2]), "str") # 0}
        Of(g, code) ==
            LET hit(row) == key(row) = g /\ CodeIs(row, measure_col, code)
            IN SelectSeq(df_stg, hit)
        records == {[temps_id |-> MapCell(temps_map, IntV(g[1]), "int"),
                     geo_id |-> MapCell(geo_map, StrV(g[2]), "str"),
                     nb_menages |-> SumOrNone(Of(g, "DWELLINGS"), obs_col),
                     nb_personnes |-> SumOrNone(Of(g, "DWELLINGS_POPSIZE"), obs_col),
                     taille_moyenne_menage |->
                         TailleMoyenne(SumOrNone(Of(g, "DWELLINGS"), obs_col),
                                       SumOrNone(Of(g, "DWELLINGS_POPSIZE"), obs_col)),
                     source_fichier |-> "stg_menages"] : g \in resolved}
    IN IF ExistingMenageTables(stg) = {} THEN Returned(0, EmptyBag, c1)
       ELSE IF df_stg = <<>> THEN Returned(0, EmptyBag, c2)
       ELSE IF annee_col = "" THEN Returned(0, EmptyBag, c3)
       ELSE IF \E i \in 1..Len(df_stg) : IsRaised(annee(df_stg[i]))
            THEN Raises("ValueError: invalid literal for int()", c3)
       ELSE IF dept_col = "" THEN Returned(0, EmptyBag, c3)
       ELSE IF resolved # {} /\ measure_col \notin cols
            THEN Raises("KeyError: 'rp_measure'", c3)
       ELSE IF resolved # {} /\ obs_col \notin cols
            THEN Raises("KeyError: 'obs_value'", c3)
       ELSE IF records = {} THEN Returned(0, EmptyBag, c3)
       ELSE IF DejaAlimentee(fait) THEN Returned(0, EmptyBag, c5)
       ELSE ReturnedLogged(Cardinality(records), SetToBag(records), c6, "dwh.fait_menages")

(***************************************************************************)
(* load_facts.main                                                         *)
(***************************************************************************)
_staging_exists(stg, table_name) == stg[table_name].exists

\* ', '.join(names)
RECURSIVE Join(_)
Join(names) ==
    IF names = <<>> THEN ""
    ELSE IF Len(names) = 1 THEN names[1]
    ELSE names[1] \o ", " \o Join(Tail(names))

\* manquantes = [t for t in stg_requises if not _staging_exists(engine, t)]
Manquantes(stg, stg_requises) ==
    LET missing(t) == ~_staging_exists(stg, t) IN SelectSeq(stg_requises, missing)

ErreurCascade == "Staging global en echec - etape ignoree en cascade"
ErreurManquantes(manquantes) == "Tables staging manquantes : " \o Join(manquantes)

Entry(statut, nb_lignes, erreur) ==
    [statut |-> statut, nb_lignes |-> nb_lignes, erreur |-> erreur]

\* nb = fn(engine)
Loader(fn, temps_map, geo_map, table_name, fk_enforced) ==
    CASE fn = "load_fait_population" ->
           load_fait_population(staging, faits["dwh.fait_population"],
                                temps_map, geo_map, dim_demographie, fk_enforced)
      [] fn = "load_fait_evenements_demo" ->
           load_fait_evenements_demo(staging, faits["dwh.fait_evenements_demo"],
                                     temps_map, geo_map)
      [] fn = "load_fait_entreprises" ->
           load_fait_entreprises(staging, faits["dwh.fait_entreprises"],
                                 temps_map, geo_map, dim_activite, fk_enforced)
      [] fn = "load_fait_revenus" ->
           load_fait_revenus(staging, faits["dwh.fait_revenus"], temps_map, geo_map)
      [] fn = "load_fait_emploi" ->
           load_fait_emploi(staging, faits["dwh.fait_emploi"],
                            temps_map, geo_map, dim_demographie)
      [] fn = "load_fait_menages" ->
           load_fait_menages(staging, faits["dwh.fait_menages"],
                             temps_map, geo_map, table_name)

\* the case of the loop body a table falls in: 1 cascade, 2 staging
\* missing, 3 load
CasSansCascade(sf, manquantes) == IF manquantes # <<>> THEN 2 ELSE 3

CasSansPrerequis(sf, manquantes) == IF sf THEN 1 ELSE 3

Cas(sf, manquantes) == IF sf THEN 1 ELSE IF manquantes # <<>> THEN 2 ELSE 3

\* where the for loop goes once the entry of table i is written; raised
\* tells whether the loader raised
NextIdxAbandon(i, raised) == IF raised THEN Len(TABLES) + 1 ELSE i + 1

NextIdx(i, raised) == i + 1

\* statut_final, and what main() returns
StatutFinal(err) == IF err THEN "ERREUR_PARTIELLE" ELSE "SUCCES"

ExitCodeSucces(err) == 0

ExitCode(err) == IF err THEN 1 ELSE 0

store_vars == <<dim_geographie, dim_activite, dim_demographie, dim_versionnee,
                dim_temps, staging, clock, nb_applied, last,
                dim_indicateur, dim_logement, args_report, pipeline_vars>>

\* the run starts: connection string built, 'DEBUT' written to the journal
MainStart(sf) ==
    /\ pc \in {"idle", "done"}
    /\ runs < MaxRuns
    /\ runs' = runs + 1
    /\ prev' = [rapport |-> rapport, faits |-> faits]
    /\ staging_failed' = sf
    /\ log_etl' = log_etl_db(log_etl, "load_facts", "ALL", "DEBUT", 0)
    /\ store_calls' = {Call("log_etl_db", "ALL")}
    /\ invoked' = {}
    /\ rapport' = EmptyRapport
    /\ total' = 0
    /\ has_error' = FALSE
    /\ statut_final' = ""
    /\ exit_code' = -1
    /\ idx' = 1
    /\ pc' = "loop"
    /\ UNCHANGED <<store_vars, faits, report_files>>

\* an early return of main(): --preview (0), or no connection string (1)
MainReturnsEarly(code) ==
    /\ pc \in {"idle", "done"}
    /\ runs < MaxRuns
    /\ runs' = runs + 1
    /\ prev' = [rapport |-> rapport, faits |-> faits]
    /\ staging_failed' = FALSE
    /\ store_calls' = {}
    /\ invoked' = {}
    /\ rapport' = EmptyRapport
    /\ total' = 0
    /\ has_error' = FALSE
    /\ statut_final' = ""
    /\ exit_code' = code
    /\ idx' = 0
    /\ pc' = "done"
    /\ UNCHANGED <<store_vars, faits, log_etl, report_files>>

MainPreview == MainReturnsEarly(0)

MainConnexionImpossible == MainReturnsEarly(1)

\* Cas 1: the staging step failed, the table is ignored in cascade
TableCascade ==
    /\ pc = "loop" /\ idx <= Len(TABLES)
    /\ Cas(staging_failed, Manquantes(staging, TABLES[idx].stg_requises)) = 1
    /\ rapport' = [rapport EXCEPT ![TABLES[idx].nom] = Entry("IGNORE", 0, ErreurCascade)]
    /\ idx' = NextIdx(idx, FALSE)
    /\ UNCHANGED <<store_vars, faits, log_etl, pc, staging_failed, total, has_error,
                   statut_final, exit_code, store_calls, invoked, runs, prev,
                   report_files>>

\* Cas 2: a staging table the entry of TABLES requires does not exist
TableManquante ==
    /\ pc = "loop" /\ idx <= Len(TABLES)
    /\ LET nom == TABLES[idx].nom
           stg_requises == TABLES[idx].stg_requises
           manquantes == Manquantes(staging, stg_requises)
       IN /\ Cas(staging_failed, manquantes) = 2
          /\ rapport' = [rapport EXCEPT
                           ![nom] = Entry("IGNORE", 0, ErreurManquantes(manquantes))]
          /\ log_etl' = log_etl_db(log_etl, "load_facts", nom, "IGNORE", 0)
          /\ store_calls' = store_calls
                 \cup {Call("_staging_exists", stg_requises[i]) : i \in 1..Len(stg_requises)}
                 \cup {Call("log_etl_db", nom)}
    /\ idx' = NextIdx(idx, FALSE)
    /\ UNCHANGED <<store_vars, faits, pc, staging_failed, total, has_error,
                   statut_final, exit_code, invoked, runs, prev, report_files>>

\* statut of a loaded table: ERREUR on an exception, OK if nb > 0, else SKIP
StatutOfSansSkip(res) == IF res.raised THEN "ERREUR" ELSE "OK"

StatutOf(res) == IF res.raised THEN "ERREUR" ELSE IF res.nb > 0 THEN "OK" ELSE "SKIP"

\* Cas 3: the loader is called inside its own try/except
TableLoad(temps_map, geo_map, table_name, fk_enforced) ==
    /\ pc = "loop" /\ idx <= Len(TABLES)
    /\ Cas(staging_failed, Manquantes(staging, TABLES[idx].stg_requises)) = 3
    /\ \E res \in {Loader(TABLES[idx].fn, temps_map, geo_map, table_name, fk_enforced)},
          nom \in {TABLES[idx].nom}, stg_requises \in {TABLES[idx].stg_requises} :
          /\ invoked' = invoked \cup {nom}
          /\ idx' = NextIdx(idx, res.raised)
          /\ faits' = [faits EXCEPT ![nom] = @ (+) res.insert]
          /\ total' = total + res.nb
          /\ has_error' = (has_error \/ res.raised)
          /\ rapport' = [rapport EXCEPT ![nom] = Entry(StatutOf(res), res.nb, res.erreur)]
          /\ log_etl' = log_etl_db(log_etl \cup res.journal, "load_facts", nom,
                                   StatutOf(res), res.nb)
          /\ store_calls' = store_calls
                 \cup {Call("_staging_exists", stg_requises[i]) : i \in 1..Len(stg_requises)}
                 \cup res.calls
                 \cup {Call("log_etl_db", nom)}
    /\ UNCHANGED <<store_vars, pc, staging_failed, statut_final, exit_code, runs, prev,
                   report_files>>

\* Rapport final
MainEnd ==
    /\ pc = "loop" /\ idx > Len(TABLES)
    /\ statut_final' = StatutFinal(has_error)
    /\ log_etl' = log_etl_db(log_etl, "load_facts", "ALL", StatutFinal(has_error), total)
    /\ store_calls' = store_calls \cup {Call("log_etl_db", "ALL")}
    /\ report_files' = IF args_report
                        THEN [report_files EXCEPT !.facts = Written(rapport, etl_runs)]
                        ELSE report_files
    /\ exit_code' = ExitCode(has_error)
    /\ pc' = "done"
    /\ UNCHANGED <<store_vars, faits, idx, staging_failed, rapport, total, has_error,
                   invoked, runs, prev>>

(***************************************************************************)
(* The warehouses a load_facts run can find.                                *)
(***************************************************************************)
\* dim_geographie once apply_scd_type2 has moved departement 02 to region 33
GeoAfterChange ==
    Scd2Result(DimGeoInit, [k \in GeoKeys |-> 0], "departement_code", TrackedColumns,
               << [departement_code |-> "02", departement_nom |-> NULL,
                   region_code |-> StrV("33")] >>, TRUE, 1)

\* the fact tables as a load of the reference extracts on the reference
\* dimensions leaves them: one row per table
FaitsCharges ==
    [nom \in FactNames |->
       CASE nom = "dwh.fait_population" ->
              SetToBag({[temps_id |-> 1, geo_id |-> 1, demo_id |-> 1, population |-> Num(5),
                         source_fichier |-> "stg_population"]})
         [] nom = "dwh.fait_evenements_demo" ->
              SetToBag({[temps_id |-> 2, geo_id |-> 1, naissances |-> Num(4),
                         deces |-> Num(3), source_fichier |-> "stg_naissances_deces"]})
         [] nom = "dwh.fait_entreprises" ->
              SetToBag({[temps_id |-> 1, geo_id |-> 2, activite_id |-> 1,
                         nb_creations_entreprises |-> Num(7),
                         source_fichier |-> "stg_creation_entreprises"]})
         [] nom = "dwh.fait_revenus" ->
              SetToBag({[temps_id |-> 11, geo_id |-> 2, revenu_median |-> Num(20),
                         revenu_d1 |-> NaN, revenu_d9 |-> NaN,
                         rapport_interdecile |-> NaN, taux_pauvrete |-> NaN,
                         part_revenus_activite |-> NaN,
                         part_pensions_retraites |-> NaN,
                         part_prestations_sociales |-> NaN,
                         nb_menages |-> NaN, nb_personnes |-> NaN,
                         source_fichier |-> "stg_ds_filosofi"]})
         [] nom = "dwh.fait_emploi" ->
              SetToBag({[temps_id |-> 2, geo_id |-> 2, demo_id |-> 1,
                         population_active |-> Num(10), population_en_emploi |-> NaN,
                         population_chomeurs |-> Num(1),
                         taux_chomage |-> Ratio(100, 10),
                         source_fichier |-> "stg_emploi_chomage"]})
         [] nom = "dwh.fait_menages" ->
              SetToBag({[temps_id |-> 1, geo_id |-> 1, nb_menages |-> Num(2),
                         nb_personnes |-> NaN,
                         taille_moyenne_menage |-> NoRatio,
                         source_fichier |-> "stg_menages"]})]

\* the warehouses a load_facts run can find: the reference dimensions with
\* empty or loaded fact tables, dim_geographie after a Type-2 change, and a
\* dim_demographie that has not been loaded
Warehouses ==
    { [geo |-> DimGeoInit, applied |-> [k \in GeoKeys |-> 0], clock |-> 0,
       demo |-> DimDemoInit, faits |-> EmptyFacts],
      [geo |-> DimGeoInit, applied |-> [k \in GeoKeys |-> 0], clock |-> 0,
       demo |-> DimDemoInit, faits |-> FaitsCharges],
      [geo |-> GeoAfterChange.tbl, applied |-> GeoAfterChange.applied, clock |-> 1,
       demo |-> DimDemoInit, faits |-> EmptyFacts],
      [geo |-> DimGeoInit, applied |-> [k \in GeoKeys |-> 0], clock |-> 0,
       demo |-> {}, faits |-> EmptyFacts] }

FactsInit ==
    /\ \E w \in Warehouses :
          /\ dim_geographie = w.geo
          /\ nb_applied = w.applied
          /\ clock = w.clock
          /\ dim_demographie = w.demo
          /\ faits = w.faits
    /\ dim_activite = DimActInit
    /\ dim_versionnee = DimVersionneeInit
    /\ dim_temps = DimTempsInit
    /\ log_etl = {}
    /\ last = NoCall
    /\ staging \in StagingChoices
    /\ MainAtRest
    /\ PipelineAtRest

Main == \E sf \in BOOLEAN : MainStart(sf)

Table ==
    \E temps_map \in PossibleMappings(dim_temps, "temps_id", "annee"),
       geo_map \in PossibleMappings(dim_geographie, "geo_id", "departement_code"),
       table_name \in MenageTableNames(staging),
       fk_enforced \in BOOLEAN :
        TableLoad(temps_map, geo_map, table_name, fk_enforced)

FactsNext ==
    \/ Main
    \/ MainPreview
    \/ MainConnexionImpossible
    \/ TableCascade
    \/ TableManquante
    \/ Table
    \/ MainEnd

SpecFacts == FactsInit /\ [][FactsNext]_vars

(***************************************************************************)
(* The loads on a warehouse whose dim_temps or dim_geographie is empty     *)
(* (load_dimensions has not run or has failed for it), from extracts that  *)
(* name their columns otherwise.                                           *)
(***************************************************************************)
DimensionsChoices ==
    { [temps |-> DimTempsInit, geo |-> DimGeoInit],
      [temps |-> {}, geo |-> DimGeoInit],
      [temps |-> DimTempsInit, geo |-> {}] }

LoadersInit ==
    /\ \E d \in DimensionsChoices :
          /\ dim_temps = d.temps
          /\ dim_geographie = d.geo
    /\ nb_applied = [k \in GeoKeys |-> 0]
    /\ clock = 0
    /\ dim_demographie = DimDemoInit
    /\ dim_activite = DimActInit
    /\ dim_versionnee = DimVersionneeInit
    /\ faits = EmptyFacts
    /\ log_etl = {}
    /\ last = NoCall
    /\ staging \in StagingVariantes
    /\ MainAtRest
    /\ PipelineAtRest

SpecLoaders == LoadersInit /\ [][FactsNext]_vars

(***************************************************************************)
(* Claims about the fact loads.                                            *)
(***************************************************************************)
Statut(nom) == rapport[nom].statut

\* the entry of TABLES of a fact table
TableOf(nom) == TABLES[CHOOSE i \in 1..Len(TABLES) : TABLES[i].nom = nom]

Requises(nom) == {TableOf(nom).stg_requises[i] : i \in 1..Len(TableOf(nom).stg_requises)}

\* every staging table the fact table requires exists and holds rows
Populated(nom) == \A t \in Requises(nom) : staging[t].exists /\ staging[t].rows # <<>>

\* the run is the second of two runs that called the loader of the table
SecondLoad(nom) == runs >= 2 /\ nom \in invoked /\ prev.rapport[nom].statut \in {"OK", "SKIP", "ERREUR"}

C5_LoadedTableSkips ==
    \A nom \in FactNames :
        (nom \in invoked /\ DejaAlimentee(prev.faits[nom]))
            => (Statut(nom) = "SKIP" /\ faits[nom] = prev.faits[nom])

\* the required staging tables of a fact table that do not exist, in the
\* order TABLES declares them
Missing(nom) ==
    LET absent(t) == ~staging[t].exists IN SelectSeq(TableOf(nom).stg_requises, absent)

\* C6: in a run that checks the prerequisites (the staging step did not
\* fail), a fact table one of whose required staging tables does not exist
\* gets an entry with status IGNORE, zero rows and an error text that lists
\* exactly the missing tables; its loader is not called, no staging table of
\* it is read and nothing is inserted into it.
C6_MissingStagingIgnored ==
    \A nom \in FactNames :
        (~staging_failed /\ Statut(nom) # "ABSENT" /\ Missing(nom) # <<>>)
            => /\ rapport[nom] =
                    Entry("IGNORE", 0, "Tables staging manquantes : " \o Join(Missing(nom)))
               /\ nom \notin invoked
               /\ \A t \in Requises(nom) : Call("read_sql", "dbo." \o t) \notin store_calls
               /\ Call("to_sql", nom) \notin store_calls
               /\ faits[nom] = prev.faits[nom]

C6_Witness ==
    /\ pc = "done" /\ ~staging_failed
    /\ staging["stg_naissances"].exists /\ ~staging["stg_deces"].exists
    /\ rapport["dwh.fait_evenements_demo"] =
          Entry("IGNORE", 0, "Tables staging manquantes : stg_deces")
    /\ Statut("dwh.fait_entreprises") = "OK"

\* C7 (as stated): when the staging step failed, every fact table is
\* reported IGNORE with zero rows and the run attempts no call to the store.
C7_NoStoreCall ==
    (pc = "done" /\ staging_failed)
        => /\ \A nom \in FactNames : Statut(nom) = "IGNORE" /\ rapport[nom].nb_lignes = 0
           /\ store_calls = {}

\* C7 (amended): when the staging step failed, every fact table is reported
\* IGNORE with zero rows; the run checks no staging table, calls no loader,
\* reads and writes no staging, dimension or fact table, and the only calls
\* to the store it attempts are the two journal writes of the run itself
\* (target ALL: the start, and the final status).
C7_CascadeIgnoresAll ==
    staging_failed
        => /\ \A nom \in FactNames :
                 Statut(nom) # "ABSENT" => rapport[nom] = Entry("IGNORE", 0, ErreurCascade)
           /\ pc = "done" => \A nom \in FactNames : Statut(nom) = "IGNORE"
           /\ invoked = {}
           /\ store_calls = {Call("log_etl_db", "ALL")}
           /\ faits = prev.faits

C7_Witness ==
    /\ pc = "done" /\ staging_failed
    /\ \A nom \in FactNames : Populated(nom) /\ ~DejaAlimentee(faits[nom])
    /\ \A nom \in FactNames : rapport[nom] = Entry("IGNORE", 0, ErreurCascade)
    /\ [etape |-> "load_facts", table_cible |-> "ALL", statut |-> "SUCCES",
        nb_lignes |-> 0] \in log_etl

\* the prerequisite check of the table was made in this run
Checked(nom) == \A t \in Requises(nom) : Call("_staging_exists", t) \in store_calls

\* C8: in a run that reaches the loop (the staging step did not fail), a
\* missing staging table or an exception of the loader of one table leaves
\* every later table attempted: at the end of the run every table has had
\* its prerequisite check and, when that passed, its loader call; an
\* exception is recorded in the entry of its table with its text, and the
\* run goes on to its final report.
C8_TablesIsolated ==
    /\ \A nom \in FactNames :
          Statut(nom) = "ERREUR"
              => rapport[nom].erreur # "" /\ rapport[nom].nb_lignes = 0 /\ has_error
    /\ \A j \in 1..Len(TABLES) :
          (/\ ~staging_failed
           /\ pc = "done" \/ (pc = "loop" /\ idx > j)
           /\ \E i \in 1..(j - 1) : Statut(TABLES[i].nom) \in {"IGNORE", "ERREUR"})
              => /\ Checked(TABLES[j].nom)
                 /\ Statut(TABLES[j].nom) # "ABSENT"
                 /\ Missing(TABLES[j].nom) = <<>> <=> TABLES[j].nom \in invoked
    /\ pc = "loop" => \A j \in 1..(idx - 1) : Statut(TABLES[j].nom) # "ABSENT"

C8_Witness ==
    /\ pc = "done"
    /\ Statut("dwh.fait_population") = "IGNORE"
    /\ Statut("dwh.fait_entreprises") = "ERREUR"
    /\ Statut("dwh.fait_revenus") = "OK"
    /\ Statut("dwh.fait_menages") = "OK"

\* C9: when a run reaches its final report, the final status is
\* ERREUR_PARTIELLE and the exit code 1 if and only if the entry of some
\* fact table has status ERREUR; otherwise every entry is OK, SKIP or IGNORE,
\* the final status is SUCCES and the exit code 0.
C9_FinalStatus ==
    (pc = "done" /\ statut_final # "")
        => LET erreur == \E nom \in FactNames : Statut(nom) = "ERREUR"
           IN /\ erreur => (statut_final = "ERREUR_PARTIELLE" /\ exit_code = 1)
              /\ ~erreur => /\ \A nom \in FactNames : Statut(nom) \in {"OK", "SKIP", "IGNORE"}
                            /\ statut_final = "SUCCES"
                            /\ exit_code = 0

C9_Witness ==
    /\ pc = "done"
    /\ Statut("dwh.fait_entreprises") = "ERREUR"
    /\ Statut("dwh.fait_population") = "OK"
    /\ statut_final = "ERREUR_PARTIELLE"
    /\ exit_code = 1

\* the dimension row a foreign key of a fact row points to exists and is
\* active
ResolvesActive(id, dim, key_col) ==
    \E r \in dim : r[key_col] = id /\ ("est_actif" \in DOMAIN r => r.est_actif = 1)

\* C10: every foreign key of every row a fact loader has inserted resolves
\* to a dimension row that exists and is active (est_actif = 1) when the
\* load is made, also after a Type-2 change has left a closed version in
\* dim_geographie and when dim_demographie is empty.
C10_ForeignKeysActive ==
    \A nom \in FactNames :
        (nom \in invoked /\ Statut(nom) = "OK")
            => \A row \in BagToSet(faits[nom]) :
                  /\ ResolvesActive(row.temps_id, dim_temps, "temps_id")
                  /\ ResolvesActive(row.geo_id, dim_geographie, "geo_id")
                  /\ "demo_id" \in DOMAIN row
                        => ResolvesActive(row.demo_id, dim_demographie, "demo_id")
                  /\ "activite_id" \in DOMAIN row
                        => ResolvesActive(row.activite_id, dim_activite, "activite_id")

(***************************************************************************)
(* What a staged row is about, read with the alias lists of                *)
(* load_fait_emploi and load_fait_menages: the first alias, in order, that *)
(* a column bears whatever its case.                                       *)
(***************************************************************************)
PeriodAliases == <<"TIME_PERIOD", "YEAR", "ANNEE">>

DeptAliases == <<"GEO_CODE", "DEPARTEMENT", "DEPARTEMENT_CODE", "DEPT_CODE">>

RECURSIVE AliasColumn(_, _)
AliasColumn(cols, aliases) ==
    IF aliases = <<>> THEN ""
    ELSE IF \E c \in cols : UpperOf[c] = Head(aliases)
         THEN CHOOSE c \in cols : UpperOf[c] = Head(aliases)
         ELSE AliasColumn(cols, Tail(aliases))

\* the year of a staged row ("" when no column holds one or it is no number)
AnneeOf(row) ==
    LET c == AliasColumn(DOMAIN row, PeriodAliases)
    IN IF c = "" THEN ""
       ELSE IF IsRaised(AsInt(row[c])) THEN "" ELSE AsInt(row[c]).repr

\* the department code of a staged row, padded to two characters
DeptOf(row) ==
    LET c == AliasColumn(DOMAIN row, DeptAliases)
    IN IF c = "" THEN ""
       ELSE IF row[c].typ = "null" THEN "" ELSE zfill(str(row[c]), 2)

\* the period of the row is a year of dim_temps and its department a
\* department of dim_geographie
Resolvable(row) ==
    /\ AnneeOf(row) \in {r.annee : r \in dim_temps}
    /\ DeptOf(row) \in {r.departement_code : r \in dim_geographie}

ResolvableRows(t) ==
    {i \in 1..Len(staging[t].rows) : Resolvable(staging[t].rows[i])}

ResolvableGroups(t) ==
    {<<AnneeOf(staging[t].rows[i]), DeptOf(staging[t].rows[i])>> : i \in ResolvableRows(t)}

\* the number of rows the load of a fact table is to insert: one per
\* resolvable staged row, one per resolvable group for an aggregating loader
Attendu(nom) ==
    CASE nom = "dwh.fait_population" -> Cardinality(ResolvableRows("stg_population"))
      [] nom = "dwh.fait_entreprises" ->
            Cardinality(ResolvableGroups("stg_creation_entreprises"))
      [] nom = "dwh.fait_emploi" -> Cardinality(ResolvableGroups("stg_emploi_chomage"))

\* C11: the load of a fact table that is empty inserts exactly one row per
\* resolvable staged row (per resolvable group for the aggregating loaders):
\* a row whose period or department matches no dimension row is dropped
\* without an exception and without a placeholder key, the other rows are
\* inserted, and nb_lignes is the number of rows inserted.
C11_ResolvableRowsLoaded ==
    \A nom \in {"dwh.fait_population", "dwh.fait_entreprises", "dwh.fait_emploi"} :
        (nom \in invoked /\ ~DejaAlimentee(prev.faits[nom]))
            => /\ Statut(nom) # "ERREUR"
               /\ rapport[nom].nb_lignes = Attendu(nom)
               /\ BagCardinality(faits[nom]) = Attendu(nom)
               /\ \A row \in BagToSet(faits[nom]) : row.temps_id # 0 /\ row.geo_id # 0

(***************************************************************************)
(* More claims about the SCD engine.                                       *)
(***************************************************************************)
\* the staged rows of the last call, by position, whose comparison with the
\* current row r detected a change
DetectedFor(r) ==
    {i \in DOMAIN last.df_new :
        last.df_new[i][LastKey] = r[LastKey] /\ BothPresentAndDiffer(<<i, r>>)}

LastDetected(r) == CHOOSE i \in DetectedFor(r) : \A j \in DetectedFor(r) : j <= i

\* C12: apply_scd_type1 inserts no row; a current row whose business key is
\* staged holds the staged value in the tracked column if a change was
\* detected for it and is untouched otherwise, a row whose key is not staged
\* is unchanged, and the return value is the number of dimension rows
\* overwritten.
C12_Type1Overwrite ==
    last.op = "scd1" =>
        /\ Cardinality(dim_activite) = Cardinality(last.before)
        /\ \A r \in last.before :
              \E q \in dim_activite :
                  /\ q.activite_id = r.activite_id
                  /\ IF DetectedFor(r) = {} THEN q = r
                     ELSE /\ q.naf_section_code = r.naf_section_code
                          /\ q.naf_section_libelle =
                                Stored(last.df_new[LastDetected(r)].naf_section_libelle)
        /\ last.ret = Cardinality({r \in last.before : DetectedFor(r) # {}})

\* the comparisons of the last call that detected a change for business key
\* k, and their order in the merged frame (staged order, then current order)
DetectedPairs(k) == {p \in LastPairs : p[2][LastKey] = k /\ BothPresentAndDiffer(p)}

PairLeq(p, q) == p[1] < q[1] \/ (p[1] = q[1] /\ p[2].demo_id <= q[2].demo_id)

LastPair(S) == CHOOSE p \in S : \A q \in S : PairLeq(q, p)

Prefix(merged, at) == SubSeq(merged, 1, at - 1)

RaisedCall(policy, table, key, tracked, df_new, before, merged, at) ==
    [op |-> "raised", policy |-> policy, table |-> table, key |-> key,
     tracked |-> tracked, df_new |-> df_new, before |-> before,
     merged |-> merged, at |-> at]

apply_scd_type1_raises(df_new, at) ==
    /\ clock < MaxCalls
    /\ \E merged \in {Merge(df_new, RowsById(dim_activite, "activite_id"),
                            "naf_section_code", 1)} :
          /\ at \in 1..Len(merged)
          /\ ValueChanged(merged[at].new.naf_section_libelle,
                          merged[at].old.naf_section_libelle)
          /\ dim_activite' =
                Scd1Loop(Prefix(merged, at), 1, [tbl |-> dim_activite, nb_changes |-> 0],
                         "naf_section_code", "naf_section_libelle", clock + 1).tbl
          /\ last' = RaisedCall("scd1", "dwh.dim_activite", "naf_section_code",
                                {"naf_section_libelle"}, df_new, dim_activite, merged, at)
    /\ clock' = clock + 1
    /\ UNCHANGED <<dim_geographie, dim_demographie, dim_versionnee, nb_applied,
                   log_etl, fact_vars>>

\* Type 2 writes the close on conn and the new row through engine, and
\* commits conn last: when the UPDATE or to_sql raises nothing of the row is
\* kept; when conn.commit() raises the new row is kept and the close is not.
apply_scd_type2_raises(df_new, tieLow, at, etape) ==
    /\ clock < MaxCalls
    /\ \E merged \in {Merge(df_new,
                            RowsById({r \in dim_geographie : r.est_actif = 1}, "geo_id"),
                            "departement_code", 1)} :
          /\ at \in 1..Len(merged)
          /\ RowChanged(merged[at], TrackedColumns)
          /\ \E st \in {Scd2Loop(Prefix(merged, at), 1,
                                 [tbl |-> dim_geographie, nb_changes |-> 0,
                                  applied |-> nb_applied],
                                 "departement_code", TrackedColumns, tieLow, clock + 1)} :
                LET bk_value == merged[at].new.departement_code
                    closed == CloseActive(st.tbl, "departement_code", bk_value, clock + 1)
                    new_record ==
                        NewRecord(OldRecord(closed, "departement_code", bk_value, tieLow),
                                  merged[at], TrackedColumns, clock + 1,
                                  MaxId(closed, "geo_id") + 1)
                IN /\ dim_geographie' =
                        IF etape = "commit" THEN st.tbl \cup {new_record} ELSE st.tbl
                   /\ nb_applied' = st.applied
          /\ last' = RaisedCall("scd2", "dwh.dim_geographie", "departement_code",
                                {"departement_nom", "region_code"}, df_new,
                                dim_geographie, merged, at)
    /\ clock' = clock + 1
    /\ UNCHANGED <<dim_activite, dim_demographie, dim_versionnee, log_etl, fact_vars>>

apply_scd_type3_raises(df_new, at) ==
    /\ clock < MaxCalls
    /\ \E merged \in {Merge(df_new, RowsById(dim_demographie, "demo_id"), "pcs_code", 1)} :
          /\ at \in 1..Len(merged)
          /\ ValueChanged(merged[at].new.pcs_libelle, merged[at].old.pcs_libelle)
          /\ dim_demographie' =
                Scd3Loop(Prefix(merged, at), 1, [tbl |-> dim_demographie, nb_changes |-> 0],
                         "pcs_code", "pcs_libelle", "ancien_pcs_libelle",
                         "date_changement_pcs", clock + 1).tbl
          /\ last' = RaisedCall("scd3", "dwh.dim_demographie", "pcs_code",
                                {"pcs_libelle"}, df_new, dim_demographie, merged, at)
    /\ clock' = clock + 1
    /\ UNCHANGED <<dim_geographie, dim_activite, dim_versionnee, nb_applied,
                   log_etl, fact_vars>>

ScdType1Raises ==
    \E df_new \in SeqsUpTo(StagedActRows, MaxStaged), at \in 1..(2 * MaxStaged) :
        apply_scd_type1_raises(df_new, at)

\* staged rows that rename a department
StagedGeoRenames ==
    [departement_code : GeoKeys, departement_nom : {StrV("Nord-Revise")},
     region_code : {NULL}]

ScdType2Raises ==
    \E df_new \in SeqsUpTo(StagedGeoRenames, MaxStaged), tieLow \in BOOLEAN,
       at \in 1..(2 * MaxStaged), etape \in {"to_sql", "commit"} :
        apply_scd_type2_raises(df_new, tieLow, at, etape)

ScdType3Raises ==
    \E df_new \in SeqsUpTo(StagedPcsRows, MaxStaged), at \in 1..(2 * MaxStaged) :
        apply_scd_type3_raises(df_new, at)

(***************************************************************************)
(* apply_scd_type2 on dim_versionnee.  new_record.pop('geo_id', None)      *)
(* removes nothing from a record that has no geo_id: the record handed to  *)
(* to_sql still carries the surrogate key of the row it was copied from.   *)
(* The store either takes the explicit key (the column is a plain column)  *)
(* or refuses the insert (identity column, primary key).                   *)
(***************************************************************************)
\* the top closed version of the key, as OldRecord, for any key column
OldRecordOn(tbl, idcol, business_key, bk) ==
    LET closed == {r \in tbl : r[business_key] = bk /\ r.est_actif = 0}
        top == {r \in closed : \A q \in closed : q.version <= r.version}
    IN CHOOSE r \in top : \A q \in top : r[idcol] <= q[idcol]

\* new_record after the pop of 'geo_id': every other column of old_record
NewRecordOn(old_record, row, tracked_columns, now) ==
    LET tracked == {tracked_columns[c] : c \in 1..Len(tracked_columns)}
        kept == DOMAIN old_record \ {"geo_id"}
        copy == [col \in kept |->
                    IF col \in tracked /\ notna(row.new[col])
                    THEN Stored(row.new[col])
                    ELSE old_record[col]]
    IN [copy EXCEPT !.date_debut_validite = now,
                    !.date_fin_validite = 0,
                    !.est_actif = 1,
                    !.version = NewVersion(row, old_record),
                    !.date_modification = now]

RECURSIVE Scd2LoopOn(_, _, _, _, _, _, _, _)
Scd2LoopOn(merged, i, st, idcol, business_key, tracked_columns, accepte, now) ==
    IF i > Len(merged) \/ st.raised THEN st
    ELSE LET row == merged[i]
             bk_value == row.new[business_key]
             closed == CloseActive(st.tbl, business_key, bk_value, now)
             old_record == OldRecordOn(closed, idcol, business_key, bk_value)
             new_record == NewRecordOn(old_record, row, tracked_columns, now)
         IN IF RowChanged(row, tracked_columns)
            THEN Scd2LoopOn(merged, i + 1,
                            IF accepte
                            THEN [tbl |-> closed \cup {new_record},
                                  nb_changes |-> st.nb_changes + 1, raised |-> FALSE]
                            ELSE [st EXCEPT !.raised = TRUE],
                            idcol, business_key, tracked_columns, accepte, now)
            ELSE Scd2LoopOn(merged, i + 1, st, idcol, business_key, tracked_columns,
                            accepte, now)

Scd2ResultOn(tbl, idcol, business_key, tracked_columns, df_new, accepte, now) ==
    LET df_current == RowsById({r \in tbl : r.est_actif = 1}, idcol)
        st0 == [tbl |-> tbl, nb_changes |-> 0, raised |-> FALSE]
    IN IF df_current = <<>>
       THEN st0
       ELSE Scd2LoopOn(Merge(df_new, df_current, business_key, 1), 1, st0,
                       idcol, business_key, tracked_columns, accepte, now)

StagedVersionneeRows ==
    [naf_section_code : VersionneeKeys,
     naf_section_libelle : {NULL, StrV("Commerce")}]

apply_scd_type2_versionnee(df_new, accepte) ==
    /\ clock < MaxCalls
    /\ \E res \in {Scd2ResultOn(dim_versionnee, "activite_id", "naf_section_code",
                                <<"naf_section_libelle">>, df_new, accepte, clock + 1)} :
          /\ dim_versionnee' = res.tbl
          /\ log_etl' = IF res.raised THEN log_etl
                        ELSE LogSucces(log_etl, "SCD_TYPE2", "dwh.dim_versionnee",
                                       res.nb_changes)
          /\ last' = [op |-> "scd2_on", df_new |-> df_new, before |-> dim_versionnee,
                      ret |-> res.nb_changes, raised |-> res.raised]
    /\ clock' = clock + 1
    /\ UNCHANGED <<dim_geographie, dim_activite, dim_demographie, nb_applied, fact_vars>>

ScdType2Versionnee ==
    \E df_new \in SeqsUpTo(StagedVersionneeRows, MaxStaged), accepte \in BOOLEAN :
        apply_scd_type2_versionnee(df_new, accepte)

ScdStoreNext ==
    \/ ScdNext
    \/ ScdType1Raises
    \/ ScdType2Raises
    \/ ScdType3Raises
    \/ ScdType2Versionnee

SpecScdStore == ScdInit /\ [][ScdStoreNext]_vars

\* the table a call was made on
TableNamed(table) ==
    CASE table = "dwh.dim_activite" -> dim_activite
      [] table = "dwh.dim_geographie" -> dim_geographie
      [] table = "dwh.dim_demographie" -> dim_demographie

\* C14: when the store refuses the change of one business key during an
\* application of a policy, every other business key of the call for which a
\* change is detected is still reconciled (its rows are written).
C14_FailureIsolated ==
    last.op = "raised" =>
        \A j \in (last.at + 1)..Len(last.merged) :
            LET row == last.merged[j]
                k == row.new[last.key]
            IN (/\ k # last.merged[last.at].new[last.key]
                /\ \E col \in last.tracked : ValueChanged(row.new[col], row.old[col]))
                   => RowsOfKey(TableNamed(last.table), last.key, k)
                         # RowsOfKey(last.before, last.key, k)

UniqueIds(tbl, idcol) == \A r, q \in tbl : r # q => r[idcol] # q[idcol]

\* C20: on dim_geographie and on a versioned dimension with another surrogate
\* key column, every change apply_scd_type2 detects leaves a new active row
\* whose surrogate key no row had before the call, and no two rows of the
\* table bear the same surrogate key.
C20_FreshSurrogateKey ==
    /\ UniqueIds(dim_geographie, "geo_id")
    /\ UniqueIds(dim_versionnee, "activite_id")
    /\ last.op = "scd2_on" =>
          \A a \in {r \in last.before : r.est_actif = 1} :
              (\E i \in DOMAIN last.df_new :
                  /\ last.df_new[i].naf_section_code = a.naf_section_code
                  /\ ValueChanged(last.df_new[i].naf_section_libelle, a.naf_section_libelle))
                 => \E n \in dim_versionnee :
                       /\ n.naf_section_code = a.naf_section_code
                       /\ n.est_actif = 1
                       /\ n.activite_id \notin {r.activite_id : r \in last.before}

(***************************************************************************)
(* More claims about the fact loads.                                       *)
(***************************************************************************)
\* the sum of nb_lignes over the entries of the first i tables of TABLES
RECURSIVE SumLignes(_)
SumLignes(i) == IF i = 0 THEN 0 ELSE rapport[TABLES[i].nom].nb_lignes + SumLignes(i - 1)

\* the entry of a table, once written, stays as it is until a new run starts
EntryWrittenOnce ==
    \A nom \in FactNames :
        Statut(nom) # "ABSENT" => (rapport'[nom] = rapport[nom] \/ runs' # runs)

\* a step of the loop writes the entry of the table it is at, and no other
StepWritesOwnEntry ==
    (pc = "loop" /\ idx' # idx) =>
        /\ Statut(TABLES[idx].nom) = "ABSENT"
        /\ rapport'[TABLES[idx].nom].statut # "ABSENT"
        /\ \A nom \in FactNames \ {TABLES[idx].nom} : rapport'[nom] = rapport[nom]

\* C19: the final report of a run holds one entry for each of the six fact
\* tables of TABLES, with a status among OK, SKIP, IGNORE and ERREUR; every
\* entry is written once, by the step of its table; an entry is OK exactly
\* when its nb_lignes is > 0; the total is the sum of nb_lignes.
C19_FinalReport ==
    /\ [](/\ DOMAIN rapport = FactNames /\ Cardinality(FactNames) = 6
          /\ (pc = "done" /\ statut_final # "")
                => \A nom \in FactNames : Statut(nom) \in {"OK", "SKIP", "IGNORE", "ERREUR"}
          /\ \A nom \in FactNames :
                /\ Statut(nom) \in {"ABSENT", "OK", "SKIP", "IGNORE", "ERREUR"}
                /\ Statut(nom) = "OK" <=> rapport[nom].nb_lignes > 0
          /\ total = SumLignes(Len(TABLES)))
    /\ [][EntryWrittenOnce /\ StepWritesOwnEntry]_vars

C19_Witness ==
    /\ pc = "done" /\ statut_final = "SUCCES"
    /\ Statut("dwh.fait_population") = "IGNORE"
    /\ rapport["dwh.fait_emploi"] = Entry("SKIP", 0, "")
    /\ rapport["dwh.fait_entreprises"] = Entry("OK", 1, "")
    /\ Statut("dwh.fait_revenus") = "OK"
    /\ total = SumLignes(Len(TABLES))
    /\ total > 1

(***************************************************************************)
(* Claims about the columns the loaders read and the keys they resolve.    *)
(***************************************************************************)
\* the fact tables loaded from one staging table, and that staging table
SingleSource ==
    {"dwh.fait_population", "dwh.fait_entreprises", "dwh.fait_revenus", "dwh.fait_emploi"}

SourceOf(nom) == staging[TableOf(nom).stg_requises[1]].rows

\* the year and the department the keys of an inserted row stand for
AnneeDuTemps(id) ==
    IF \E r \in dim_temps : r.temps_id = id
    THEN (CHOOSE r \in dim_temps : r.temps_id = id).annee ELSE ""

DeptDuGeo(id) ==
    IF \E r \in dim_geographie : r.geo_id = id
    THEN (CHOOSE r \in dim_geographie : r.geo_id = id).departement_code ELSE ""

ClesInserees(nom) ==
    {<<AnneeDuTemps(row.temps_id), DeptDuGeo(row.geo_id)>> : row \in BagToSet(faits[nom])}

\* C15: every loader finds the period and the department of a staged row
\* under any accepted alias whatever its case, and with TIME_PERIOD before
\* YEAR before ANNEE when several are present: the rows it inserts into an
\* empty fact table stand for exactly the (year, department) pairs read that
\* way that resolve.
C15_AliasPreference ==
    \A nom \in SingleSource :
        (/\ nom \in invoked /\ ~DejaAlimentee(prev.faits[nom])
         /\ SourceOf(nom) # <<>>
         /\ AliasColumn(Columns(SourceOf(nom)), PeriodAliases) # ""
         /\ AliasColumn(Columns(SourceOf(nom)), DeptAliases) # "")
            => ClesInserees(nom) = ResolvableGroups(TableOf(nom).stg_requises[1])

MeasureAliases ==
    <<"OBS_VALUE", "POPULATION_VALUE", "MEASURE_VALUE", "CREATION_COUNT",
      "INDICATOR_VALUE">>

\* the staged extract bears no alias of the period, of the department or of
\* the measure
LacksRequired(df) ==
    \E aliases \in {PeriodAliases, DeptAliases, MeasureAliases} :
        AliasColumn(Columns(df), aliases) = ""

\* C16: a loader whose staged extract lacks every alias of a required column
\* is reported ERREUR with the error text, inserts nothing, and is never
\* reported SKIP or OK (no default value stands in for the column).
C16_MissingColumnIsError ==
    \A nom \in SingleSource :
        (nom \in invoked /\ SourceOf(nom) # <<>> /\ LacksRequired(SourceOf(nom)))
            => /\ Statut(nom) = "ERREUR"
               /\ rapport[nom].erreur # ""
               /\ faits[nom] = prev.faits[nom]

\* C17: an inserted row holds its ratio exactly when both operands are
\* present and the denominator is > 0, also when the numerator is 0
\* (taux_chomage = 100 * population_chomeurs / population_active,
\* taille_moyenne_menage = nb_personnes / nb_menages); otherwise it is null.
C17_RatioComputed ==
    /\ \A row \in BagToSet(faits["dwh.fait_emploi"]) :
          row.taux_chomage =
              IF /\ ~row.population_active.na /\ ~row.population_chomeurs.na
                 /\ row.population_active.val > 0
              THEN Ratio(row.population_chomeurs.val * 100, row.population_active.val)
              ELSE NoRatio
    /\ \A row \in BagToSet(faits["dwh.fait_menages"]) :
          row.taille_moyenne_menage =
              IF /\ ~row.nb_menages.na /\ ~row.nb_personnes.na
                 /\ row.nb_menages.val > 0
              THEN Ratio(row.nb_personnes.val, row.nb_menages.val)
              ELSE NoRatio

\* the calls of get_dim_mapping made by the loaders
MappingCalls ==
    { [tbl |-> dim_temps, key_col |-> "temps_id", lookup_col |-> "annee"],
      [tbl |-> dim_geographie, key_col |-> "geo_id", lookup_col |-> "departement_code"] }

\* C18: the keys of a mapping get_dim_mapping returns are exactly the natural
\* keys present in the dimension and each value is the surrogate key of a row
\* bearing that key; on an empty dimension the mapping is empty, and each
\* loader called (on an extract that bears its required columns) then
\* completes with zero rows and without error.
C18_DimMapping ==
    /\ \A c \in MappingCalls :
          /\ PossibleMappings(c.tbl, c.key_col, c.lookup_col) # {}
          /\ \A m \in PossibleMappings(c.tbl, c.key_col, c.lookup_col) :
                /\ DOMAIN m = {r[c.lookup_col] : r \in c.tbl}
                /\ \A k \in DOMAIN m :
                      \E r \in c.tbl : r[c.lookup_col] = k /\ r[c.key_col] = m[k]
                /\ c.tbl = {} => DOMAIN m = {}
    /\ (dim_temps = {} \/ dim_geographie = {}) =>
          \A nom \in invoked :
              (nom \in SingleSource => ~LacksRequired(SourceOf(nom)))
                  => rapport[nom] = Entry("SKIP", 0, "") /\ faits[nom] = EmptyBag

(***************************************************************************)
(* Claims about what a refused statement leaves behind.                    *)
(***************************************************************************)
\* a change is detected on a merged row of the last call
DetectedRow(row) == \E col \in last.tracked : ValueChanged(row.new[col], row.old[col])

\* the business key whose change the store refused
FailingKey == last.merged[last.at].new[last.key]

\* C21: when persisting the change of a business key fails during a policy
\* application, every other key whose change was committed earlier in the call
\* keeps it (its rows are not those from before the call), and the failing key
\* has exactly the rows it had before the call.
C21_FailureKeepsCommitted ==
    last.op = "raised" =>
        /\ \A j \in 1..(last.at - 1) :
              LET k == last.merged[j].new[last.key]
              IN (k # FailingKey /\ DetectedRow(last.merged[j]))
                    => RowsOfKey(TableNamed(last.table), last.key, k)
                          # RowsOfKey(last.before, last.key, k)
        /\ RowsOfKey(TableNamed(last.table), last.key, FailingKey)
              = RowsOfKey(last.before, last.key, FailingKey)

(***************************************************************************)
(* Claims about the rows of a versioned dimension.                         *)
(***************************************************************************)
\* every closed row of the table is in the table after the step, as it is
ClosedRowsKept(tbl, tbl_next) == \A r \in tbl : r.est_actif = 0 => r \in tbl_next

\* C22: under any sequence of apply_scd_type2 calls (failed ones included) a
\* row with est_actif = 0 stays in the table with est_actif = 0 and with the
\* same version, date_fin_validite and attribute values.
C22_ClosedIsTerminal ==
    [][/\ ClosedRowsKept(dim_geographie, dim_geographie')
       /\ ClosedRowsKept(dim_versionnee, dim_versionnee')]_vars

C22_Witness ==
    /\ clock = 2 /\ last.op = "scd2"
    /\ \E r, q \in dim_geographie :
          /\ r.departement_code = q.departement_code
          /\ r.est_actif = 0 /\ r.version = 1 /\ r.date_fin_validite = 1
          /\ q.est_actif = 0 /\ q.version = 2 /\ q.date_fin_validite = 2

\* C23: from a dim_geographie whose rows all have est_actif in {0, 1} and
\* version >= 1, every state reached through apply_scd_type2 calls has
\* est_actif in {0, 1} and version >= 1 on every row.
C23_ActifAndVersionValid ==
    \A r \in dim_geographie : r.est_actif \in {0, 1} /\ r.version \in Nat \ {0}

C23_Witness ==
    /\ last.op = "scd2"
    /\ \E r, q \in dim_geographie :
          /\ r.departement_code = q.departement_code
          /\ r.est_actif = 0 /\ r.version = 2
          /\ q.est_actif = 1 /\ q.version = 3

\* the active rows of a business key of dim_geographie
ActiveRows(k) == {r \in RowsOfKey(dim_geographie, "departement_code", k) : r.est_actif = 1}

\* C25: after an apply_scd_type2 call has returned or raised, whichever of
\* the UPDATE, the insert or the commit failed, every business key of
\* dim_geographie has exactly one active row.
C25_CloseAndInsertAtomic ==
    (last.op = "scd2" \/ (last.op = "raised" /\ last.policy = "scd2"))
        => \A k \in GeoKeys : Cardinality(ActiveRows(k)) = 1

(***************************************************************************)
(* Claims about applying a policy again.                                   *)
(***************************************************************************)
\* the step applies the policy of the last call again, on the same df_new
SameCallAgain(op) ==
    /\ last.op = op /\ last'.op = op
    /\ last'.df_new = last.df_new
    /\ clock' = clock + 1

\* C26: applying apply_scd_type1, apply_scd_type2 or apply_scd_type3 again
\* with the same staged data, right after a successful application, returns 0
\* and leaves the dimension tables unchanged, whatever the staged data
\* (several staged rows for one business key included).
C26_ReapplyDetectsNothing ==
    [][\A op \in {"scd1", "scd2", "scd3"} :
          SameCallAgain(op) =>
              /\ last'.ret = 0
              /\ dim_activite' = dim_activite
              /\ dim_geographie' = dim_geographie
              /\ dim_demographie' = dim_demographie]_vars

(***************************************************************************)
(* Claims about the prerequisites of the fact loads.                       *)
(***************************************************************************)
\* the staging-existence test each loader makes for itself
LoaderFindsStaging(nom) ==
    CASE nom = "dwh.fait_population" -> staging["stg_population"].exists
      [] nom = "dwh.fait_evenements_demo" ->
           Cardinality({t \in {"stg_naissances", "stg_deces"} : staging[t].exists}) >= 2
      [] nom = "dwh.fait_entreprises" -> staging["stg_creation_entreprises"].exists
      [] nom = "dwh.fait_revenus" -> staging["stg_ds_filosofi"].exists
      [] nom = "dwh.fait_emploi" -> staging["stg_emploi_chomage"].exists
      [] nom = "dwh.fait_menages" -> ExistingMenageTables(staging) # {}

\* C28: for every fact table the run has handled without the cascade of a
\* failed staging step, when the staging table(s) its loader would read exist
\* (for fait_menages: stg_menages or stg_menage) the table is not reported
\* IGNORE and its loader has been called.
C28_PrerequisiteAgreesWithLoader ==
    \A nom \in FactNames :
        (Statut(nom) # "ABSENT" /\ ~staging_failed /\ LoaderFindsStaging(nom))
            => Statut(nom) # "IGNORE" /\ nom \in invoked

(***************************************************************************)
(* Claims about the rows of fait_evenements_demo.                          *)
(***************************************************************************)
\* the staging table t holds a row for the year and department of the keys
\* of the fact row r
StagedForPair(t, r) ==
    \E i \in 1..Len(staging[t].rows) :
        /\ ~IsRaised(EvtAnnee(staging[t].rows[i]))
        /\ EvtAnnee(staging[t].rows[i]).repr = AnneeDuTemps(r.temps_id)
        /\ EvtDept(staging[t].rows[i]) = DeptDuGeo(r.geo_id)

\* C30: fait_evenements_demo holds at most one row per (temps_id, geo_id),
\* and that row carries the births and the deaths staged for the pair, also
\* when stg_naissances or stg_deces holds several rows for one year and
\* department.
C30_OneRowPerPair ==
    LET bag == faits["dwh.fait_evenements_demo"]
    IN \A r \in BagToSet(bag) :
          /\ CopiesIn(r, bag) = 1
          /\ \A q \in BagToSet(bag) :
                (q.temps_id = r.temps_id /\ q.geo_id = r.geo_id) => q = r
          /\ StagedForPair("stg_naissances", r) => r.naissances # NaN
          /\ StagedForPair("stg_deces", r) => r.deces # NaN

(***************************************************************************)
(*                                                                         *)
(*      The dimension loaders and main() of load_dimensions.py             *)
(*                                                                         *)
(***************************************************************************)
\* df.to_sql(..., if_exists='append'): the store numbers the inserted rows
\* after the highest identity of the table; a row of df carries its position
\* in the frame in the identity column
to_sql(tbl, idcol, df) ==
    tbl \cup {[r EXCEPT ![idcol] = MaxId(tbl, idcol) + r[idcol]] : r \in df}

\* the test `if count == 0` on SELECT COUNT(*)
CountIsZeroToujours(count) == TRUE

CountIsZero(count) == count = 0

\* the body the loaders share: count the rows, insert the frame when 0
LoadDim(tbl, idcol, df) ==
    IF CountIsZero(Cardinality(tbl))
    THEN [tbl |-> to_sql(tbl, idcol, df), ret |-> Cardinality(df)]
    ELSE [tbl |-> tbl, ret |-> 0]

\* df_communes: one commune of the Nord, as load_communes and the renaming
\* give it (the store sets est_actif and version by default)
DfCommunes ==
    { [geo_id |-> 1, departement_code |-> "59", departement_nom |-> StrV("Nord"),
       region_code |-> StrV("32"), geo_code_source |-> "", commune_code |-> "59350",
       date_debut_validite |-> 0, date_fin_validite |-> 0, est_actif |-> 1,
       version |-> 1, date_modification |-> 0] }

\* communes: "" no --communes or no such file, "ok" the communes are
\* inserted, "erreur" load_communes or the insert raises (caught, [WARN])
CommunesChoices == {"", "ok", "erreur"}

load_dim_geographie(tbl, communes) ==
    IF CountIsZero(Cardinality(tbl))
    THEN IF communes = "ok"
         THEN [tbl |-> to_sql(to_sql(tbl, "geo_id", DimGeoInit), "geo_id", DfCommunes),
               ret |-> Cardinality(DimGeoInit) + Cardinality(DfCommunes)]
         ELSE [tbl |-> to_sql(tbl, "geo_id", DimGeoInit), ret |-> Cardinality(DimGeoInit)]
    ELSE [tbl |-> tbl, ret |-> 0]

\* the loaders in the order main() calls them, the frame and the identity
\* column of each
DimLoaders ==
    <<"dim_temps", "dim_geographie", "dim_demographie", "dim_activite",
      "dim_indicateur", "dim_logement">>

DimNames == {DimLoaders[i] : i \in 1..Len(DimLoaders)}

RefRows ==
    [dim_temps |-> DimTempsInit, dim_geographie |-> DimGeoInit,
     dim_demographie |-> DimDemoInit, dim_activite |-> DimActInit,
     dim_indicateur |-> DimIndicateurInit, dim_logement |-> DimLogementInit]

IdCol ==
    [dim_temps |-> "temps_id", dim_geographie |-> "geo_id",
     dim_demographie |-> "demo_id", dim_activite |-> "activite_id",
     dim_indicateur |-> "indicateur_id", dim_logement |-> "logement_id"]

\* the six dimension tables of the store
DimTables ==
    [dim_temps |-> dim_temps, dim_geographie |-> dim_geographie,
     dim_demographie |-> dim_demographie, dim_activite |-> dim_activite,
     dim_indicateur |-> dim_indicateur, dim_logement |-> dim_logement]

SetDimTables(d) ==
    /\ dim_temps' = d.dim_temps
    /\ dim_geographie' = d.dim_geographie
    /\ dim_demographie' = d.dim_demographie
    /\ dim_activite' = d.dim_activite
    /\ dim_indicateur' = d.dim_indicateur
    /\ dim_logement' = d.dim_logement

\* load_dim_temps(engine) .. load_dim_logement(engine)
LoaderResult(nom, tbl, communes) ==
    IF nom = "dim_geographie" THEN load_dim_geographie(tbl, communes)
    ELSE LoadDim(tbl, IdCol[nom], RefRows[nom])

\* the state of a load_facts process and the tables it writes
run_vars == <<staging, faits, pc, idx, staging_failed, rapport, total, has_error,
              statut_final, exit_code, store_calls, invoked, runs, prev, args_report>>

\* one call of a dimension loader
load_dim(nom, communes) ==
    /\ \E res \in {LoaderResult(nom, DimTables[nom], communes)} :
          /\ SetDimTables([DimTables EXCEPT ![nom] = res.tbl])
          /\ last' = [op |-> "load_dim", table |-> nom, before |-> DimTables[nom],
                      ret |-> res.ret]
    /\ UNCHANGED <<dim_versionnee, log_etl, clock, nb_applied, run_vars,
                   report_files, pipeline_vars>>

\* the options main() declares to argparse
DimensionsOptions ==
    {"--server", "--database", "--user", "--password", "--communes", "--preview"}

\* total += load_dim_...(engine), in order, inside the try of main(): the
\* loader number `echec` raises (0: none does)
RECURSIVE RunLoaders(_, _, _, _, _)
RunLoaders(d, i, echec, communes, nb) ==
    IF i > Len(DimLoaders) THEN [dims |-> d, total |-> nb, code |-> 0]
    ELSE IF i = echec THEN [dims |-> d, total |-> nb, code |-> 1]
    ELSE LET nom == DimLoaders[i]
             res == LoaderResult(nom, d[nom], communes)
         IN RunLoaders([d EXCEPT ![nom] = res.tbl], i + 1, echec, communes, nb + res.ret)

\* python load_dimensions.py <options>: argparse leaves with code 2 on an
\* option it does not know, --preview returns 0 before any connection
RunLoadDimensions(d, log, options, echec, communes) ==
    IF ~(options \subseteq DimensionsOptions)
    THEN [dims |-> d, log |-> log, code |-> 2, work |-> "none"]
    ELSE IF "--preview" \in options
    THEN [dims |-> d, log |-> log, code |-> 0, work |-> "none"]
    ELSE LET res == RunLoaders(d, 1, echec,
                               IF "--communes" \in options THEN communes ELSE "", 0)
             debut == log_etl_db(log, "load_dimensions", "ALL", "DEBUT", 0)
         IN [dims |-> res.dims,
             log |-> IF res.code = 0
                     THEN log_etl_db(debut, "load_dimensions", "ALL", "SUCCES", res.total)
                     ELSE log_etl_db(debut, "load_dimensions", "ALL", "ERREUR", 0),
             code |-> res.code,
             work |-> IF res.code = 0 THEN "done" ELSE "failed"]

\* load_dimensions.py run from the command line
DimensionsMain(options, echec, communes) ==
    /\ \E res \in {RunLoadDimensions(DimTables, log_etl, options, echec, communes)} :
          /\ SetDimTables(res.dims)
          /\ log_etl' = res.log
          /\ last' = [op |-> "load_dimensions", options |-> options,
                      before |-> DimTables, code |-> res.code]
    /\ UNCHANGED <<dim_versionnee, clock, nb_applied, run_vars, report_files,
                   pipeline_vars>>

\* the command lines load_dimensions.py is run with
DimensionsCommandLines ==
    { {"--server", "--database", "--user", "--password"},
      {"--server", "--database", "--user", "--password", "--communes"},
      {"--preview"},
      {"--server", "--database", "--user", "--password", "--report"} }

\* the dimension tables an invocation can find: empty, as loaded, and for
\* dim_geographie as a change of region left it
DimTablesChoices ==
    [dim_temps : {{}, DimTempsInit}, dim_geographie : {{}, DimGeoInit, GeoAfterChange.tbl},
     dim_demographie : {{}, DimDemoInit}, dim_activite : {{}, DimActInit},
     dim_indicateur : {{}, DimIndicateurInit}, dim_logement : {{}, DimLogementInit}]

DimensionsInit ==
    /\ \E d \in DimTablesChoices :
          /\ dim_temps = d.dim_temps
          /\ dim_geographie = d.dim_geographie
          /\ dim_demographie = d.dim_demographie
          /\ dim_activite = d.dim_activite
          /\ dim_indicateur = d.dim_indicateur
          /\ dim_logement = d.dim_logement
    /\ dim_versionnee = DimVersionneeInit
    /\ log_etl = {}
    /\ clock = 0
    /\ nb_applied = [k \in GeoKeys |-> 0]
    /\ last = NoCall
    /\ staging = [t \in StagingTables |-> Absent]
    /\ faits = EmptyFacts
    /\ MainAtRest
    /\ args_report = FALSE
    /\ report_files = [dims |-> NoFile, facts |-> NoFile]
    /\ etl_pc = "idle"
    /\ etl_args = {}
    /\ rapport_etapes = [e \in EtapeNames |-> NoEtape]
    /\ rapport_details = EmptyRapport
    /\ success = TRUE
    /\ staging_ok = TRUE
    /\ mails = {}
    /\ etl_exit = -1
    /\ etl_runs = 0
    /\ echecs = {}

LoadDimTemps == load_dim("dim_temps", "")
LoadDimGeographie == \E communes \in CommunesChoices : load_dim("dim_geographie", communes)
LoadDimDemographie == load_dim("dim_demographie", "")
LoadDimActivite == load_dim("dim_activite", "")
LoadDimIndicateur == load_dim("dim_indicateur", "")
LoadDimLogement == load_dim("dim_logement", "")

LoadDimensions ==
    \E options \in DimensionsCommandLines, echec \in 0..Len(DimLoaders),
       communes \in CommunesChoices :
        DimensionsMain(options, echec, communes)

DimensionsNext ==
    \/ LoadDimTemps
    \/ LoadDimGeographie
    \/ LoadDimDemographie
    \/ LoadDimActivite
    \/ LoadDimIndicateur
    \/ LoadDimLogement
    \/ LoadDimensions

SpecDimensions == DimensionsInit /\ [][DimensionsNext]_vars

\* C24: a dimension loader called on an empty table inserts its reference
\* rows and returns their count; called on a table that holds a row it
\* leaves the table as it was and returns 0; calling it once more after
\* any call changes nothing
C24_LoaderInsertsOnlyWhenEmpty ==
    last.op = "load_dim" =>
        LET tbl == DimTables[last.table]
        IN /\ last.before = {} =>
                /\ \A r \in RefRows[last.table] : r \in tbl
                /\ last.ret = Cardinality(tbl)
                /\ last.ret >= Cardinality(RefRows[last.table])
           /\ last.before # {} => tbl = last.before /\ last.ret = 0
           /\ \A communes \in CommunesChoices :
                 LET again == LoaderResult(last.table, tbl, communes)
                 IN again.tbl = tbl /\ again.ret = 0

\* the second call of load_dim_geographie, on the departments and the
\* commune the first call inserted
C24_Witness ==
    /\ last.op = "load_dim"
    /\ last.table = "dim_geographie"
    /\ last.ret = 0
    /\ last.before = dim_geographie
    /\ Cardinality(dim_geographie) = Cardinality(DimGeoInit) + Cardinality(DfCommunes)
    /\ \E r \in dim_geographie :
          "commune_code" \in DOMAIN r /\ r.geo_id = Cardinality(DimGeoInit) + 1

(***************************************************************************)
(*                                                                         *)
(*                 run_etl.py: main() and its six steps                    *)
(*                                                                         *)
(***************************************************************************)
\* _read_report(report_path): the content of the file, {} if it cannot be read
read_report(file) == IF file.existe THEN file.contenu ELSE EmptyRapport

\* rapport_details.update(detail)
UpdateDetails(details, detail) ==
    [nom \in FactNames |->
       IF detail[nom].statut # "ABSENT" THEN detail[nom] ELSE details[nom]]

\* [n for n, i in detail.items() if i.get('statut') == 'ERREUR']
Erreurs(detail) == {nom \in FactNames : detail[nom].statut = "ERREUR"}

\* sum(i.get('nb_lignes', 0) for i in detail.values())
RECURSIVE NbLignes(_, _)
NbLignes(detail, i) ==
    IF i = 0 THEN 0 ELSE detail[TABLES[i].nom].nb_lignes + NbLignes(detail, i - 1)

\* the entry of a sub-script step: OK `if ok and not erreurs`
EtapeEntry(ok, erreurs, nb) ==
    [statut |-> IF ok /\ erreurs = {} THEN "OK"
                ELSE IF erreurs # {} THEN "ERREUR_PARTIELLE" ELSE "ERREUR",
     nb_lignes |-> nb]

\* the entry of a step that has no report
EtapeSimple(ok) == [statut |-> IF ok THEN "OK" ELSE "ERREUR", nb_lignes |-> 0]

\* send_error_email(etape=..., table=...) and send_success_email
Mail(etape, table) == [etape |-> etape, table |-> table]

ErrorMails(ok, etape, erreurs) ==
    IF ok /\ erreurs = {} THEN {} ELSE {Mail(etape, nom) : nom \in erreurs}

\* `if args.full or args.<step>`
Selected(flag) == "--full" \in etl_args \/ flag \in etl_args

StepFlags ==
    {"--full", "--staging", "--security", "--dimensions", "--facts", "--refresh",
     "--backup"}

\* the command line step_load_dimensions builds (report_path is always given)
DimensionsArgv(communes_path) ==
    {"--server", "--database", "--user", "--password"}
        \cup (IF communes_path THEN {"--communes"} ELSE {})
        \cup {"--report"}

\* the command line step_load_facts builds
FactsArgv(sf) ==
    {"--server", "--database", "--user", "--password"}
        \cup (IF sf THEN {"--staging-failed"} ELSE {})
        \cup {"--report"}

\* the options main() of load_facts.py declares to argparse
FactsOptions ==
    {"--server", "--database", "--user", "--password", "--preview",
     "--staging-failed", "--report"}

\* what run_etl.main does not hold itself: the store and the load_facts process
store_and_run_vars ==
    <<scd_vars, dim_temps, dim_indicateur, dim_logement, run_vars, report_files>>

\* main() up to the first step: the options, the empty reports
EtlMain(args) ==
    /\ etl_pc \in {"idle", "done"}
    /\ pc \in {"idle", "done"}
    /\ etl_runs < MaxPipelines
    /\ etl_runs' = etl_runs + 1
    /\ etl_args' = IF args \cap StepFlags = {} THEN args \cup {"--full"} ELSE args
    /\ rapport_etapes' = [e \in EtapeNames |-> NoEtape]
    /\ rapport_details' = EmptyRapport
    /\ success' = TRUE
    /\ staging_ok' = TRUE
    /\ mails' = {}
    /\ etl_exit' = -1
    /\ echecs' = {}
    /\ etl_pc' = "staging"
    /\ UNCHANGED store_and_run_vars

\* ETAPE 1: export_to_sql.py (True when the script is not there)
EtlStaging(ok) ==
    /\ etl_pc = "staging"
    /\ etl_pc' = "securite"
    /\ IF Selected("--staging")
       THEN /\ rapport_etapes' = [rapport_etapes EXCEPT !.staging = EtapeSimple(ok)]
            /\ staging_ok' = ok
            /\ success' = (success /\ ok)
            /\ mails' = IF ok THEN mails ELSE mails \cup {Mail("Staging", "export_to_sql.py")}
            /\ echecs' = IF ok THEN echecs ELSE echecs \cup {"staging"}
       ELSE UNCHANGED <<rapport_etapes, staging_ok, success, mails, echecs>>
    /\ UNCHANGED <<etl_args, rapport_details, etl_exit, etl_runs, store_and_run_vars>>

\* ETAPE 2: load_security.py --reset --load
EtlSecurite(ok) ==
    /\ etl_pc = "securite"
    /\ etl_pc' = "dimensions"
    /\ IF Selected("--security")
       THEN /\ rapport_etapes' = [rapport_etapes EXCEPT !.securite = EtapeSimple(ok)]
            /\ success' = (success /\ ok)
            /\ mails' = IF ok THEN mails
                        ELSE mails \cup {Mail("Securite RLS",
                                              "security.agences / security.employes")}
            /\ echecs' = IF ok THEN echecs ELSE echecs \cup {"securite"}
       ELSE UNCHANGED <<rapport_etapes, success, mails, echecs>>
    /\ UNCHANGED <<etl_args, rapport_details, staging_ok, etl_exit, etl_runs,
                   store_and_run_vars>>

\* ETAPE 3: load_dimensions.py run to its end with the command line of
\* step_load_dimensions, then the report read and the entry of the step
EtlDimensions(echec, communes) ==
    /\ etl_pc = "dimensions"
    /\ etl_pc' = "faits"
    /\ IF Selected("--dimensions")
       THEN \E res \in {RunLoadDimensions(DimTables, log_etl,
                                          DimensionsArgv("--communes" \in etl_args),
                                          echec, communes)},
               dims_detail \in {read_report(report_files.dims)} :
               /\ SetDimTables(res.dims)
               /\ log_etl' = res.log
               /\ rapport_details' = UpdateDetails(rapport_details, dims_detail)
               /\ rapport_etapes' =
                     [rapport_etapes EXCEPT
                        !.dimensions = EtapeEntry(res.code = 0, Erreurs(dims_detail),
                                                  NbLignes(dims_detail, Len(TABLES)))]
               /\ success' = (success /\ res.code = 0 /\ Erreurs(dims_detail) = {})
               /\ mails' = mails \cup ErrorMails(res.code = 0, "Dimensions",
                                                 Erreurs(dims_detail))
               /\ echecs' = IF res.work = "failed" THEN echecs \cup {"dimensions"}
                            ELSE echecs
       ELSE UNCHANGED <<dim_temps, dim_geographie, dim_demographie, dim_activite,
                        dim_indicateur, dim_logement, log_etl, rapport_details,
                        rapport_etapes, success, mails, echecs>>
    /\ UNCHANGED <<dim_versionnee, clock, nb_applied, last, run_vars, report_files,
                   etl_args, staging_ok, etl_exit, etl_runs>>

\* ETAPE 4: subprocess.run of load_facts.py with --report
EtlFaitsRun ==
    /\ etl_pc = "faits"
    /\ IF Selected("--facts")
       THEN /\ etl_pc' = "faits_run"
            /\ pc' = "idle"
            /\ exit_code' = -1
            /\ args_report' = TRUE
       ELSE /\ etl_pc' = "refresh"
            /\ UNCHANGED <<pc, exit_code, args_report>>
    /\ UNCHANGED <<scd_vars, dim_temps, dim_indicateur, dim_logement, staging, faits,
                   idx, staging_failed, rapport, total, has_error, statut_final,
                   store_calls, invoked, runs, prev, report_files, etl_args,
                   rapport_etapes, rapport_details, success, staging_ok, mails,
                   etl_exit, etl_runs, echecs>>

\* the child: main() of load_facts.py with the command line of step_load_facts
EtlFaitsMain ==
    /\ etl_pc = "faits_run"
    /\ pc = "idle"
    /\ FactsArgv(~staging_ok) \subseteq FactsOptions
    /\ MainStart(~staging_ok)

EtlFaitsConnexionImpossible ==
    /\ etl_pc = "faits_run"
    /\ pc = "idle"
    /\ FactsArgv(~staging_ok) \subseteq FactsOptions
    /\ MainConnexionImpossible

\* ETAPE 4, once the child has returned: the report read, the entry of the step
EtlFaitsRetour ==
    /\ etl_pc = "faits_run"
    /\ pc = "done"
    /\ etl_pc' = "refresh"
    /\ \E facts_detail \in {read_report(report_files.facts)} :
          /\ rapport_details' = UpdateDetails(rapport_details, facts_detail)
          /\ rapport_etapes' =
                [rapport_etapes EXCEPT
                   !.faits = EtapeEntry(exit_code = 0, Erreurs(facts_detail),
                                        NbLignes(facts_detail, Len(TABLES)))]
          /\ success' = (success /\ exit_code = 0 /\ Erreurs(facts_detail) = {})
          /\ mails' = mails \cup ErrorMails(exit_code = 0, "Faits", Erreurs(facts_detail))
    /\ echecs' = IF exit_code # 0 THEN echecs \cup {"faits"} ELSE echecs
    /\ UNCHANGED <<etl_args, staging_ok, etl_exit, etl_runs, store_and_run_vars>>

\* ETAPE 5: step_refresh_views returns True whatever happens
EtlRefresh ==
    /\ etl_pc = "refresh"
    /\ etl_pc' = "backup"
    /\ rapport_etapes' = IF Selected("--refresh")
                         THEN [rapport_etapes EXCEPT !.refresh = EtapeSimple(TRUE)]
                         ELSE rapport_etapes
    /\ UNCHANGED <<etl_args, rapport_details, success, staging_ok, mails, etl_exit,
                   etl_runs, echecs, store_and_run_vars>>

\* ETAPE 6: step_backup_datalake
EtlBackup(ok) ==
    /\ etl_pc = "backup"
    /\ etl_pc' = "fin"
    /\ IF Selected("--backup")
       THEN /\ rapport_etapes' = [rapport_etapes EXCEPT !.backup = EtapeSimple(ok)]
            /\ success' = (success /\ ok)
            /\ mails' = IF ok THEN mails
                        ELSE mails \cup {Mail("Backup BACPAC", "ADLS Gen2 / raw/backups/")}
            /\ echecs' = IF ok THEN echecs ELSE echecs \cup {"backup"}
       ELSE UNCHANGED <<rapport_etapes, success, mails, echecs>>
    /\ UNCHANGED <<etl_args, rapport_details, staging_ok, etl_exit, etl_runs,
                   store_and_run_vars>>

\* the success e-mail and `return 0 if success else 1`
EtlEnd ==
    /\ etl_pc = "fin"
    /\ etl_pc' = "done"
    /\ mails' = IF success THEN mails \cup {Mail("SUCCES", "")} ELSE mails
    /\ etl_exit' = IF success THEN 0 ELSE 1
    /\ UNCHANGED <<etl_args, rapport_etapes, rapport_details, success, staging_ok,
                   etl_runs, echecs, store_and_run_vars>>

\* the command lines run_etl.py is run with
EtlCommandLines == { {}, {"--dimensions", "--communes"}, {"--facts"} }

\* a loaded warehouse with empty fact tables, and the extracts of an export
EtlInit ==
    /\ dim_geographie = DimGeoInit
    /\ nb_applied = [k \in GeoKeys |-> 0]
    /\ clock = 0
    /\ dim_demographie = DimDemoInit
    /\ dim_activite = DimActInit
    /\ dim_versionnee = DimVersionneeInit
    /\ dim_temps = DimTempsInit
    /\ faits = EmptyFacts
    /\ log_etl = {}
    /\ last = NoCall
    /\ staging \in StagingChoices
    /\ MainAtRest
    /\ PipelineAtRest

EtlNext ==
    \/ \E args \in EtlCommandLines : EtlMain(args)
    \/ \E ok \in BOOLEAN : EtlStaging(ok)
    \/ \E ok \in BOOLEAN : EtlSecurite(ok)
    \/ \E echec \in 0..Len(DimLoaders), communes \in CommunesChoices :
          EtlDimensions(echec, communes)
    \/ EtlFaitsRun
    \/ EtlFaitsMain
    \/ EtlFaitsConnexionImpossible
    \/ TableCascade
    \/ TableManquante
    \/ Table
    \/ MainEnd
    \/ EtlFaitsRetour
    \/ EtlRefresh
    \/ \E ok \in BOOLEAN : EtlBackup(ok)
    \/ EtlEnd

SpecEtl == EtlInit /\ [][EtlNext]_vars

(***************************************************************************)
(* Claims about the pipeline of run_etl.py.                                *)
(***************************************************************************)
EtapeEnEchec(e) == rapport_etapes[e].statut \in {"ERREUR", "ERREUR_PARTIELLE"}

\* C27: once run_etl has returned, a step is marked ERREUR or
\* ERREUR_PARTIELLE only if its own work failed, and a full run in which
\* the work of no step failed has succeeded and returned 0
C27_StepFailsOnlyOnOwnWork ==
    etl_pc = "done" =>
        /\ \A e \in EtapeNames : EtapeEnEchec(e) => e \in echecs
        /\ ("--full" \in etl_args /\ echecs = {}) => (success /\ etl_exit = 0)

\* the same for the runs that leave the dimensions step out
C27_HoldsWithoutDimensions ==
    (etl_pc = "done" /\ ~Selected("--dimensions")) =>
        /\ \A e \in EtapeNames : EtapeEnEchec(e) => e \in echecs
        /\ echecs = {} => (success /\ etl_exit = 0)

\* the facts report on disk was written during the current run_etl run
FactsReportOfThisRun == report_files.facts.existe /\ report_files.facts.ecrit = etl_runs

\* C29: once the facts step of a run has made its entry, if load_facts
\* wrote no report during this run then no detail is aggregated, the step
\* counts no row, is not ERREUR_PARTIELLE and no error e-mail names a table
C29_DetailsOfCurrentRunOnly ==
    (rapport_etapes["faits"].statut # "ABSENT" /\ ~FactsReportOfThisRun) =>
        /\ rapport_details = EmptyRapport
        /\ rapport_etapes["faits"].nb_lignes = 0
        /\ rapport_etapes["faits"].statut # "ERREUR_PARTIELLE"
        /\ \A m \in mails : m.etape # "Faits"

\* with no report file on disk nothing is aggregated for the facts step
C29_HoldsWhenNoFileLeft ==
    (rapport_etapes["faits"].statut # "ABSENT" /\ ~report_files.facts.existe) =>
        /\ rapport_details = EmptyRapport
        /\ rapport_etapes["faits"].nb_lignes = 0
        /\ \A m \in mails : m.etape # "Faits"

====
